---------------------------- MODULE Spec2Model ----------------------------
(***************************************************************************)
(* Model of the knowledgehelper request pipeline (src/web_app.py,          *)
(* src/document_processor.py): the documents folder is scanned, every      *)
(* document is scored against the query, the two best candidates are       *)
(* packaged as context, the generator answers, and the answer text decides *)
(* which candidates are cited as sources.                                  *)
(*                                                                         *)
(* A Python str is modelled as a sequence of one-character strings, so     *)
(* that lower(), split(), strip(), replace() and the substring test `in`   *)
(* are computed character by character as Python computes them.            *)
(***************************************************************************)
EXTENDS Integers, Sequences, FiniteSets, TLC

\* ------------------------------------------------------------------------
\* Python str operations
\* ------------------------------------------------------------------------

\* str.lower() on one character (ASCII letters).
LowerOf ==
    ("A" :> "a") @@ ("B" :> "b") @@ ("C" :> "c") @@ ("D" :> "d") @@
    ("E" :> "e") @@ ("F" :> "f") @@ ("G" :> "g") @@ ("H" :> "h") @@
    ("I" :> "i") @@ ("J" :> "j") @@ ("K" :> "k") @@ ("L" :> "l") @@
    ("M" :> "m") @@ ("N" :> "n") @@ ("O" :> "o") @@ ("P" :> "p") @@
    ("Q" :> "q") @@ ("R" :> "r") @@ ("S" :> "s") @@ ("T" :> "t") @@
    ("U" :> "u") @@ ("V" :> "v") @@ ("W" :> "w") @@ ("X" :> "x") @@
    ("Y" :> "y") @@ ("Z" :> "z")

\* s.lower()
py_lower(s) ==
    [i \in 1..Len(s) |-> IF s[i] \in DOMAIN LowerOf THEN LowerOf[s[i]] ELSE s[i]]

\* The characters str.split() and str.strip() treat as whitespace.
IsSpace(c) == c \in {" ", "\n", "\t", "\r"}

\* `w in s` for two strings: w occurs in s as a contiguous substring.
py_in(w, s) ==
    \E i \in 1..(Len(s) - Len(w) + 1) :
        \A j \in 1..Len(w) : s[i + j - 1] = w[j]

\* The pieces of s between the positions in `at`, in order: what split
\* yields when the separators of s are the characters at those positions.
pieces_between(s, at) ==
    LET n == Cardinality(at)
        \* the k-th separator position; 0 before the first, Len(s)+1 after the last
        cut(k) == IF k = 0 THEN 0
                  ELSE IF k = n + 1 THEN Len(s) + 1
                  ELSE CHOOSE p \in at : Cardinality({x \in at : x < p}) = k - 1
    IN  [k \in 1..(n + 1) |-> SubSeq(s, cut(k - 1) + 1, cut(k) - 1)]

\* s.split(sep) for a one-character separator: empty pieces are kept.
py_split(s, sep) == pieces_between(s, {i \in 1..Len(s) : s[i] = sep})

\* s.split(): pieces between runs of whitespace, no empty piece.
py_split_ws(s) ==
    SelectSeq(pieces_between(s, {i \in 1..Len(s) : IsSpace(s[i])}),
              LAMBDA piece : piece # <<>>)

\* s.strip()
py_strip(s) ==
    LET keep == {i \in 1..Len(s) : ~IsSpace(s[i])}
    IN  IF keep = {} THEN <<>>
        ELSE SubSeq(s, CHOOSE i \in keep : \A k \in keep : i <= k,
                       CHOOSE i \in keep : \A k \in keep : i >= k)

\* s.replace(a, b) for one-character a and b.
py_replace(s, a, b) == [i \in 1..Len(s) |-> IF s[i] = a THEN b ELSE s[i]]

\* s[:n]
py_prefix(s, n) == SubSeq(s, 1, IF n < Len(s) THEN n ELSE Len(s))

\* s[-n:] on a list
py_suffix(s, n) == IF Len(s) <= n THEN s ELSE SubSeq(s, Len(s) - n + 1, Len(s))

RECURSIVE py_join(_, _)
\* sep.join(parts)
py_join(sep, parts) ==
    IF parts = <<>> THEN <<>>
    ELSE IF Len(parts) = 1 THEN parts[1]
    ELSE parts[1] \o sep \o py_join(sep, Tail(parts))

\* sum(1 for word in words if word in s)
count_in(words, s) == Cardinality({i \in 1..Len(words) : py_in(words[i], s)})

\* ------------------------------------------------------------------------
\* Relevance matcher: find_relevant_documents (src/web_app.py)
\* ------------------------------------------------------------------------

\* doc_patterns: pattern name -> keywords, in the dict's insertion order.
doc_patterns ==
    <<
    \* 'employee_handbook': ['handbook', 'employee', 'work hours', 'dress code', 'performance', 'mission', 'core hours', 'collaboration', 'growth']
    [pattern_name |->
        <<"e","m","p","l","o","y","e","e","_","h","a","n","d","b","o","o",
          "k">>,
     keywords |-> <<
        <<"h","a","n","d","b","o","o","k">>,
        <<"e","m","p","l","o","y","e","e">>,
        <<"w","o","r","k"," ","h","o","u","r","s">>,
        <<"d","r","e","s","s"," ","c","o","d","e">>,
        <<"p","e","r","f","o","r","m","a","n","c","e">>,
        <<"m","i","s","s","i","o","n">>,
        <<"c","o","r","e"," ","h","o","u","r","s">>,
        <<"c","o","l","l","a","b","o","r","a","t","i","o","n">>,
        <<"g","r","o","w","t","h">> >>],
    \* 'pto_policy': ['pto', 'vacation', 'time off', 'leave', 'holiday', 'sick days', 'personal days', 'paid time']
    [pattern_name |->
        <<"p","t","o","_","p","o","l","i","c","y">>,
     keywords |-> <<
        <<"p","t","o">>,
        <<"v","a","c","a","t","i","o","n">>,
        <<"t","i","m","e"," ","o","f","f">>,
        <<"l","e","a","v","e">>,
        <<"h","o","l","i","d","a","y">>,
        <<"s","i","c","k"," ","d","a","y","s">>,
        <<"p","e","r","s","o","n","a","l"," ","d","a","y","s">>,
        <<"p","a","i","d"," ","t","i","m","e">> >>],
    \* 'health_benefits': ['health', 'medical', 'benefits', 'insurance', 'healthcare', 'dental', 'vision', 'coverage']
    [pattern_name |->
        <<"h","e","a","l","t","h","_","b","e","n","e","f","i","t","s">>,
     keywords |-> <<
        <<"h","e","a","l","t","h">>,
        <<"m","e","d","i","c","a","l">>,
        <<"b","e","n","e","f","i","t","s">>,
        <<"i","n","s","u","r","a","n","c","e">>,
        <<"h","e","a","l","t","h","c","a","r","e">>,
        <<"d","e","n","t","a","l">>,
        <<"v","i","s","i","o","n">>,
        <<"c","o","v","e","r","a","g","e">> >>],
    \* 'it_security_policy': ['security', 'password', 'it policy', 'network', 'vpn', 'device', 'data protection', 'cybersecurity']
    [pattern_name |->
        <<"i","t","_","s","e","c","u","r","i","t","y","_","p","o","l","i",
          "c","y">>,
     keywords |-> <<
        <<"s","e","c","u","r","i","t","y">>,
        <<"p","a","s","s","w","o","r","d">>,
        <<"i","t"," ","p","o","l","i","c","y">>,
        <<"n","e","t","w","o","r","k">>,
        <<"v","p","n">>,
        <<"d","e","v","i","c","e">>,
        <<"d","a","t","a"," ","p","r","o","t","e","c","t","i","o","n">>,
        <<"c","y","b","e","r","s","e","c","u","r","i","t","y">> >>],
    \* 'claude_usage_policy': ['claude', 'ai', 'artificial intelligence', 'usage policy', 'ai guidelines']
    [pattern_name |->
        <<"c","l","a","u","d","e","_","u","s","a","g","e","_","p","o","l",
          "i","c","y">>,
     keywords |-> <<
        <<"c","l","a","u","d","e">>,
        <<"a","i">>,
        <<"a","r","t","i","f","i","c","i","a","l"," ","i","n","t","e","l",
          "l","i","g","e","n","c","e">>,
        <<"u","s","a","g","e"," ","p","o","l","i","c","y">>,
        <<"a","i"," ","g","u","i","d","e","l","i","n","e","s">> >>],
    \* 'org_structure': ['organization', 'structure', 'department', 'team', 'hierarchy', 'reporting']
    [pattern_name |->
        <<"o","r","g","_","s","t","r","u","c","t","u","r","e">>,
     keywords |-> <<
        <<"o","r","g","a","n","i","z","a","t","i","o","n">>,
        <<"s","t","r","u","c","t","u","r","e">>,
        <<"d","e","p","a","r","t","m","e","n","t">>,
        <<"t","e","a","m">>,
        <<"h","i","e","r","a","r","c","h","y">>,
        <<"r","e","p","o","r","t","i","n","g">> >>]
    >>

\* The words the query tokenizer discards.
stop_words ==
    {<<"t","h","e">>,
     <<"a","n","d">>,
     <<"f","o","r">>,
     <<"w","i","t","h">>,
     <<"a","b","o","u","t">>,
     <<"w","h","a","t">>,
     <<"h","o","w">>,
     <<"c","a","n">>,
     <<"y","o","u">>}

\* Query words: tokens of the lowercased query longer than 2 characters
\* that are not stop words.
query_words(query_lower) ==
    SelectSeq(py_split_ws(query_lower),
              LAMBDA word : Len(word) > 2 /\ word \notin stop_words)

\* Number of the pattern's keywords that occur in the lowercased query.
query_pattern_matches(pattern, query_lower) ==
    count_in(pattern.keywords, query_lower)

\* any(pattern_part in doc_name_lower for pattern_part in name.split('_'))
name_matches_pattern(pattern, doc_name_lower) ==
    LET parts == py_split(pattern.pattern_name, "_")
    IN  \E k \in 1..Len(parts) : py_in(parts[k], doc_name_lower)

\* The weight a pattern hit on a document whose name matches the pattern gets.
PatternWeight == 5

\* pattern_score of one pattern for one document.
pattern_score(pattern, doc_name_lower, query_lower) ==
    IF name_matches_pattern(pattern, doc_name_lower)
    THEN query_pattern_matches(pattern, query_lower) * PatternWeight
    ELSE 0

RECURSIVE best_pattern_loop(_, _, _, _)
best_pattern_loop(k, best, doc_name_lower, query_lower) ==
    IF k > Len(doc_patterns) THEN best
    ELSE LET ps == pattern_score(doc_patterns[k], doc_name_lower, query_lower)
         IN  best_pattern_loop(k + 1, IF ps > best THEN ps ELSE best,
                               doc_name_lower, query_lower)

\* best_pattern_score that keeps the smallest pattern score.
best_pattern_score_smallest(doc_name_lower, query_lower) ==
    LET scores == {pattern_score(doc_patterns[k], doc_name_lower, query_lower) :
                       k \in 1..Len(doc_patterns)}
    IN  CHOOSE s \in scores : \A t \in scores : s <= t

\* best_pattern_score: the loop over doc_patterns, starting from 0.
best_pattern_score(doc_name_lower, query_lower) ==
    best_pattern_loop(1, 0, doc_name_lower, query_lower)

\* content_matches: query words occurring in the lowercased content.
content_matches(words, content_lower) ==
    count_in(words, content_lower)

\* name_matches: query words occurring in the lowercased document name.
name_matches(words, doc_name_lower) ==
    count_in(words, doc_name_lower)

ContentWeight == 2
NameWeight == 3

\* total_score with content matches weighted 3: two content matches alone
\* reach the threshold.
total_score_heavy_content(cm, nm, bps) ==
    (cm * NameWeight) + (nm * NameWeight) + bps

\* total_score with the weights of content and name exchanged.
total_score_swapped(cm, nm, bps) ==
    (cm * NameWeight) + (nm * ContentWeight) + bps

\* total_score = content_matches * 2 + name_matches * 3 + best_pattern_score
total_score(cm, nm, bps) == (cm * ContentWeight) + (nm * NameWeight) + bps

MinScore == 5
MinContentMatches == 2

\* admission_gate with the score threshold lowered to 3.
admission_gate_low(ts, cm, nm, bps) ==
    ts >= 3 /\ (nm > 0 \/ cm > MinContentMatches \/ bps > 0)

\* admission_gate that admits on query words only, never on a pattern.
admission_gate_needs_terms(ts, cm, nm, bps) ==
    ts >= MinScore /\ (nm > 0 \/ cm > MinContentMatches)

\* The condition under which a scored document is appended to relevant_docs.
admission_gate(ts, cm, nm, bps) ==
    ts >= MinScore /\ (nm > 0 \/ cm > MinContentMatches \/ bps > 0)

\* ------------------------------------------------------------------------
\* The documents folder and DynamicDocumentProcessor
\* (src/document_processor.py)
\* ------------------------------------------------------------------------

\* The files the documents folder may hold: name, whether it is a
\* directory, the text its reader yields, and the error message of
\* open() when the file cannot be read (empty when it can).
FilePool ==
    <<
    \* 'pto_policy.txt': 'Employees receive 15 days of paid time off annually. Vacation requests must be submitted two weeks in advance.'
    [filename |->
        <<"p","t","o","_","p","o","l","i","c","y",".","t","x","t">>,
     is_dir |-> FALSE,
     text |->
        <<"E","m","p","l","o","y","e","e","s"," ","r","e","c","e","i","v",
          "e"," ","1","5"," ","d","a","y","s"," ","o","f"," ","p","a","i",
          "d"," ","t","i","m","e"," ","o","f","f"," ","a","n","n","u","a",
          "l","l","y","."," ","V","a","c","a","t","i","o","n"," ","r","e",
          "q","u","e","s","t","s"," ","m","u","s","t"," ","b","e"," ","s",
          "u","b","m","i","t","t","e","d"," ","t","w","o"," ","w","e","e",
          "k","s"," ","i","n"," ","a","d","v","a","n","c","e",".">>,
     read_error |->
        <<>>],
    \* 'health-benefits.txt': 'Medical insurance coverage begins after thirty days.\nDental and vision plans are optional.'
    [filename |->
        <<"h","e","a","l","t","h","-","b","e","n","e","f","i","t","s",".",
          "t","x","t">>,
     is_dir |-> FALSE,
     text |->
        <<"M","e","d","i","c","a","l"," ","i","n","s","u","r","a","n","c",
          "e"," ","c","o","v","e","r","a","g","e"," ","b","e","g","i","n",
          "s"," ","a","f","t","e","r"," ","t","h","i","r","t","y"," ","d",
          "a","y","s",".","\n","D","e","n","t","a","l"," ","a","n","d"," ",
          "v","i","s","i","o","n"," ","p","l","a","n","s"," ","a","r","e",
          " ","o","p","t","i","o","n","a","l",".">>,
     read_error |->
        <<>>],
    \* 'it_security_policy.txt': 'Passwords must be changed every ninety days. Vacation mode locks the device.\n\n   zz zz zz zz zz zz zz zz zz zz zz zz zz zz zz zz zz zz zz zz zz zz zz zz zz zz zz zz zz zz zz zz zz zz zz zz zz zz zz zz zz zz zz zz zz zz zz zz   '
    [filename |->
        <<"i","t","_","s","e","c","u","r","i","t","y","_","p","o","l","i",
          "c","y",".","t","x","t">>,
     is_dir |-> FALSE,
     text |->
        <<"P","a","s","s","w","o","r","d","s"," ","m","u","s","t"," ","b",
          "e"," ","c","h","a","n","g","e","d"," ","e","v","e","r","y"," ",
          "n","i","n","e","t","y"," ","d","a","y","s","."," ","V","a","c",
          "a","t","i","o","n"," ","m","o","d","e"," ","l","o","c","k","s",
          " ","t","h","e"," ","d","e","v","i","c","e",".","\n","\n"," "," ",
          " ","z","z"," ","z","z"," ","z","z"," ","z","z"," ","z","z"," ",
          "z","z"," ","z","z"," ","z","z"," ","z","z"," ","z","z"," ","z",
          "z"," ","z","z"," ","z","z"," ","z","z"," ","z","z"," ","z","z",
          " ","z","z"," ","z","z"," ","z","z"," ","z","z"," ","z","z"," ",
          "z","z"," ","z","z"," ","z","z"," ","z","z"," ","z","z"," ","z",
          "z"," ","z","z"," ","z","z"," ","z","z"," ","z","z"," ","z","z",
          " ","z","z"," ","z","z"," ","z","z"," ","z","z"," ","z","z"," ",
          "z","z"," ","z","z"," ","z","z"," ","z","z"," ","z","z"," ","z",
          "z"," ","z","z"," ","z","z"," ","z","z"," ","z","z"," ","z","z",
          " "," "," ">>,
     read_error |->
        <<>>],
    \* 'Query Notes.txt': 'Many vacation days were taken.\n\nInsurance forms are due. Ask us if you need more time off.'
    [filename |->
        <<"Q","u","e","r","y"," ","N","o","t","e","s",".","t","x","t">>,
     is_dir |-> FALSE,
     text |->
        <<"M","a","n","y"," ","v","a","c","a","t","i","o","n"," ","d","a",
          "y","s"," ","w","e","r","e"," ","t","a","k","e","n",".","\n","\n",
          "I","n","s","u","r","a","n","c","e"," ","f","o","r","m","s"," ",
          "a","r","e"," ","d","u","e","."," ","A","s","k"," ","u","s"," ",
          "i","f"," ","y","o","u"," ","n","e","e","d"," ","m","o","r","e",
          " ","t","i","m","e"," ","o","f","f",".">>,
     read_error |->
        <<>>],
    \* 'readme.md': 'How many vacation days do I get? Many vacation days.'
    [filename |->
        <<"r","e","a","d","m","e",".","m","d">>,
     is_dir |-> FALSE,
     text |->
        <<"H","o","w"," ","m","a","n","y"," ","v","a","c","a","t","i","o",
          "n"," ","d","a","y","s"," ","d","o"," ","I"," ","g","e","t","?",
          " ","M","a","n","y"," ","v","a","c","a","t","i","o","n"," ","d",
          "a","y","s",".">>,
     read_error |->
        <<>>],
    \* 'archive.txt': ''
    [filename |->
        <<"a","r","c","h","i","v","e",".","t","x","t">>,
     is_dir |-> TRUE,
     text |->
        <<>>,
     read_error |->
        <<>>],
    \* 'leave_policy.txt': 'Leave is granted on request.'
    [filename |->
        <<"l","e","a","v","e","_","p","o","l","i","c","y",".","t","x","t">>,
     is_dir |-> FALSE,
     text |->
        <<"L","e","a","v","e"," ","i","s"," ","g","r","a","n","t","e","d",
          " ","o","n"," ","r","e","q","u","e","s","t",".">>,
     read_error |->
        <<"[","E","r","r","n","o"," ","1","3","]"," ","P","e","r","m","i",
          "s","s","i","o","n"," ","d","e","n","i","e","d",":"," ","'","d",
          "o","c","u","m","e","n","t","s","/","l","e","a","v","e","_","p",
          "o","l","i","c","y",".","t","x","t","'">>],
    \* 'pto-policy.txt': 'Old rules: ten vacation days per year.'
    [filename |->
        <<"p","t","o","-","p","o","l","i","c","y",".","t","x","t">>,
     is_dir |-> FALSE,
     text |->
        <<"O","l","d"," ","r","u","l","e","s",":"," ","t","e","n"," ","v",
          "a","c","a","t","i","o","n"," ","d","a","y","s"," ","p","e","r",
          " ","y","e","a","r",".">>,
     read_error |->
        <<>>]
    >>

\* The queries a request may carry.
Queries ==
    <<
    \* 'How many vacation days do I get?'
    <<"H","o","w"," ","m","a","n","y"," ","v","a","c","a","t","i","o","n",
      " ","d","a","y","s"," ","d","o"," ","I"," ","g","e","t","?">>,
    \* 'xyz nonsense query'
    <<"x","y","z"," ","n","o","n","s","e","n","s","e"," ","q","u","e","r",
      "y">>,
    \* 'medical insurance coverage vacation days'
    <<"m","e","d","i","c","a","l"," ","i","n","s","u","r","a","n","c","e",
      " ","c","o","v","e","r","a","g","e"," ","v","a","c","a","t","i","o",
      "n"," ","d","a","y","s">>,
    \* 'PTO policy'
    <<"P","T","O"," ","p","o","l","i","c","y">>,
    \* 'vacation days insurance'
    <<"v","a","c","a","t","i","o","n"," ","d","a","y","s"," ","i","n","s",
      "u","r","a","n","c","e">>,
    \* 'Is AI ok'
    <<"I","s"," ","A","I"," ","o","k">>,
    \* '  '
    <<" "," ">>,
    \* 'Reset my password'
    <<"R","e","s","e","t"," ","m","y"," ","p","a","s","s","w","o","r","d">>,
    \* 'days of the PTO policy'
    <<"d","a","y","s"," ","o","f"," ","t","h","e"," ","P","T","O"," ","p",
      "o","l","i","c","y">>,
    \* 'insurance forms'
    <<"i","n","s","u","r","a","n","c","e"," ","f","o","r","m","s">>
    >>

\* The texts the generator may answer with.
AnswerTexts ==
    <<
    \* 'You get 15 days of paid time off annually.'
    <<"Y","o","u"," ","g","e","t"," ","1","5"," ","d","a","y","s"," ","o",
      "f"," ","p","a","i","d"," ","t","i","m","e"," ","o","f","f"," ","a",
      "n","n","u","a","l","l","y",".">>,
    \* 'Employees receive days; requests are submitted two weeks in advance. Passwords changed every ninety.'
    <<"E","m","p","l","o","y","e","e","s"," ","r","e","c","e","i","v","e",
      " ","d","a","y","s",";"," ","r","e","q","u","e","s","t","s"," ","a",
      "r","e"," ","s","u","b","m","i","t","t","e","d"," ","t","w","o"," ",
      "w","e","e","k","s"," ","i","n"," ","a","d","v","a","n","c","e",".",
      " ","P","a","s","s","w","o","r","d","s"," ","c","h","a","n","g","e",
      "d"," ","e","v","e","r","y"," ","n","i","n","e","t","y",".">>,
    \* 'See the PTO Policy.'
    <<"S","e","e"," ","t","h","e"," ","P","T","O"," ","P","o","l","i","c",
      "y",".">>,
    \* 'Unknown'
    <<"U","n","k","n","o","w","n">>,
    \* 'Medical insurance coverage begins after thirty days'
    <<"M","e","d","i","c","a","l"," ","i","n","s","u","r","a","n","c","e",
      " ","c","o","v","e","r","a","g","e"," ","b","e","g","i","n","s"," ",
      "a","f","t","e","r"," ","t","h","i","r","t","y"," ","d","a","y","s">>
    >>

VARIABLES
    folder_exists,        \* os.path.exists(self.documents_folder)
    folder_listing,       \* os.listdir(self.documents_folder): indices of FilePool
    usage_analytics,      \* the global usage_analytics
    conversation_sessions,\* the global conversation_sessions
    matcher_log,          \* query -> candidates of the first chat request with it
    last,                 \* what the last request did and returned
    auth_sessions,        \* SimpleUserAuth.sessions: token -> session
    now,                  \* datetime.now(), in hours since the server started
    issued,               \* every token create_session returned, and for what
    logged_out,           \* the tokens logout_user has deleted
    auth_last             \* what the last login, logout or page request did

\* The state of authentication: the session table, the clock and the record
\* of what was issued, logged out and answered.
auth_vars == <<auth_sessions, now, issued, logged_out, auth_last>>

vars == <<folder_exists, folder_listing, usage_analytics,
          conversation_sessions, matcher_log, last,
          auth_sessions, now, issued, logged_out, auth_last>>

\* self.documents_folder
documents_folder == <<"d","o","c","u","m","e","n","t","s">>

\* self.supported_extensions
supported_extensions ==
    {<<".","t","x","t">>, <<".","p","d","f">>, <<".","d","o","c">>,
     <<".","d","o","c","x">>, <<".","r","t","f">>}

\* Largest index of character c in p, 0 when there is none (p.rfind(c) + 1).
py_rfind(p, c) ==
    LET at == {i \in 1..Len(p) : p[i] = c}
    IN  IF at = {} THEN 0 ELSE CHOOSE i \in at : \A k \in at : k <= i

\* os.path.splitext(p): <<root, ext>>; the extension starts at the last dot
\* after the last separator, unless only dots precede it in the file name.
py_splitext(p) ==
    LET sepIndex == py_rfind(p, "/")
        dotIndex == py_rfind(p, ".")
    IN  IF dotIndex > sepIndex
           /\ \E i \in (sepIndex + 1)..(dotIndex - 1) : p[i] # "."
        THEN <<SubSeq(p, 1, dotIndex - 1), SubSeq(p, dotIndex, Len(p))>>
        ELSE <<p, <<>>>>

\* os.path.join(self.documents_folder, filename)
path_join(folder, filename) == folder \o <<"/">> \o filename

\* documents[doc_key] = file_path on an insertion-ordered dict, kept as a
\* sequence of entries: an existing key keeps its place and gets the value.
dict_set(documents, doc_key, file_path) ==
    IF \E k \in 1..Len(documents) : documents[k].doc_key = doc_key
    THEN [k \in 1..Len(documents) |->
            IF documents[k].doc_key = doc_key
            THEN [doc_key |-> doc_key, file_path |-> file_path]
            ELSE documents[k]]
    ELSE Append(documents, [doc_key |-> doc_key, file_path |-> file_path])

\* The document key of a file name: the name without its extension, with
\* spaces and hyphens replaced by underscores.
doc_key_of(filename) ==
    py_replace(py_replace(py_splitext(filename)[1], " ", "_"), "-", "_")

\* is_supported without the test of the extension.
is_supported_any_extension(file) == ~file.is_dir

\* Whether the scan lists the file: not a directory, supported extension.
is_supported(file) ==
    /\ ~file.is_dir
    /\ py_splitext(py_lower(file.filename))[2] \in supported_extensions

RECURSIVE scan_loop(_, _, _)
scan_loop(listing, k, documents) ==
    IF k > Len(listing) THEN documents
    ELSE LET file == FilePool[listing[k]]
         IN  scan_loop(listing, k + 1,
                 IF is_supported(file)
                 THEN dict_set(documents, doc_key_of(file.filename),
                               path_join(documents_folder, file.filename))
                 ELSE documents)

\* scan_documents_folder(): the documents dict; a missing folder gives {}
\* (and is created, see FolderAfterScan).
scan_documents_folder(exists, listing) ==
    IF ~exists THEN <<>> ELSE scan_loop(listing, 1, <<>>)

\* The folder after a scan: os.makedirs creates it when it was missing.
FolderAfterScan(exists) == TRUE

\* f"Error reading {file_path}: {str(e)}"
ErrorReading ==
    <<"E","r","r","o","r"," ","r","e","a","d","i","n","g"," ">>

\* extract_text_from_file(file_path): the text of the file at that path, or,
\* when reading it raises, the error message returned in its place.
extract_text_from_file(listing, file_path) ==
    LET k == CHOOSE k \in 1..Len(listing) :
                 path_join(documents_folder, FilePool[listing[k]].filename)
                     = file_path
        file == FilePool[listing[k]]
    IN  IF file.read_error # <<>>
        THEN ErrorReading \o file_path \o <<":", " ">> \o file.read_error
        ELSE file.text

\* score_document that carries state over: the score grows with the number
\* of queries already processed.
score_document_with_history(entry, content, query_lower) ==
    LET content_lower  == py_lower(content)
        doc_name_lower == py_lower(entry.doc_key)
        words == query_words(query_lower)
        bps   == best_pattern_score(doc_name_lower, query_lower)
        cm    == content_matches(words, content_lower)
        nm    == name_matches(words, doc_name_lower)
        ts    == total_score(cm, nm, bps) + usage_analytics.total_queries
    IN  IF admission_gate(ts, cm, nm, bps)
        THEN <<[doc_name |-> entry.doc_key, file_path |-> entry.file_path,
                score |-> ts, content |-> content]>>
        ELSE <<>>

\* One scored document: the tuple (doc_name, file_path, total_score, content)
\* when the document passes the admission gate, else nothing.
score_document(entry, content, query_lower) ==
    LET content_lower  == py_lower(content)
        doc_name_lower == py_lower(entry.doc_key)
        words == query_words(query_lower)
        bps   == best_pattern_score(doc_name_lower, query_lower)
        cm    == content_matches(words, content_lower)
        nm    == name_matches(words, doc_name_lower)
        ts    == total_score(cm, nm, bps)
    IN  IF admission_gate(ts, cm, nm, bps)
        THEN <<[doc_name |-> entry.doc_key, file_path |-> entry.file_path,
                score |-> ts, content |-> content]>>
        ELSE <<>>

RECURSIVE score_loop(_, _, _, _, _)
score_loop(document_files, listing, k, query_lower, relevant_docs) ==
    IF k > Len(document_files) THEN relevant_docs
    ELSE score_loop(document_files, listing, k + 1, query_lower,
             relevant_docs \o
             score_document(document_files[k],
                 extract_text_from_file(listing, document_files[k].file_path),
                 query_lower))

\* relevant_docs before sorting: the admitted documents in scan order.
admitted_docs(query) ==
    score_loop(scan_documents_folder(folder_exists, folder_listing),
               folder_listing, 1, py_lower(query), <<>>)

\* insert_desc that places x before the elements of equal score: the sort
\* it gives reverses the order of ties.
insert_desc_before_ties(sorted, x) ==
    LET before == {i \in 1..Len(sorted) : sorted[i].score > x.score}
        n == Cardinality(before)
    IN  SubSeq(sorted, 1, n) \o <<x>> \o SubSeq(sorted, n + 1, Len(sorted))

\* Insert x into a list sorted by descending score, after every element
\* whose score is not smaller: elements of equal score keep their order.
insert_desc(sorted, x) ==
    LET before == {i \in 1..Len(sorted) : sorted[i].score >= x.score}
        n == Cardinality(before)
    IN  SubSeq(sorted, 1, n) \o <<x>> \o SubSeq(sorted, n + 1, Len(sorted))

RECURSIVE sort_loop(_, _, _)
sort_loop(docs, k, sorted) ==
    IF k > Len(docs) THEN sorted
    ELSE sort_loop(docs, k + 1, insert_desc(sorted, docs[k]))

\* sort_by_score in ascending order of the score.
sort_by_score_ascending(docs) ==
    LET sorted == sort_loop(docs, 1, <<>>)
    IN  [k \in 1..Len(sorted) |-> sorted[Len(sorted) + 1 - k]]

\* relevant_docs.sort(key=lambda x: x[2], reverse=True): a stable sort.
sort_by_score(docs) == sort_loop(docs, 1, <<>>)

DominanceFactor == 2
TopN == 2

\* dominance_cutoff without the dominance test: always the top two.
dominance_cutoff_top_two(relevant_docs) == py_prefix(relevant_docs, TopN)

\* The cutoff after sorting: only the top document when its score is more
\* than twice the second's, else the top two.
dominance_cutoff(relevant_docs) ==
    IF Len(relevant_docs) >= 2
       /\ relevant_docs[1].score > relevant_docs[2].score * DominanceFactor
    THEN py_prefix(relevant_docs, 1)
    ELSE py_prefix(relevant_docs, TopN)

\* find_relevant_documents(query)
find_relevant_documents(query) ==
    dominance_cutoff(sort_by_score(admitted_docs(query)))

\* ------------------------------------------------------------------------
\* Context assembler: get_document_excerpts (src/web_app.py)
\* ------------------------------------------------------------------------

HighlightMax == 200

\* [word.lower() for word in query.split() if len(word) > 2]
highlight_words(query) ==
    LET long == SelectSeq(py_split_ws(query), LAMBDA word : Len(word) > 2)
    IN  [k \in 1..Len(long) |-> py_lower(long[k])]

\* cleaned_content cut to the length of a highlight.
cleaned_content_cut(content) ==
    LET lines == py_split(content, "\n")
        stripped == [k \in 1..Len(lines) |-> py_strip(lines[k])]
    IN  py_prefix(py_join(<<"\n">>,
                      SelectSeq(stripped, LAMBDA line : line # <<>>)),
                  HighlightMax)

\* '\n'.join(line.strip() for line in content.split('\n') if line.strip())
cleaned_content(content) ==
    LET lines == py_split(content, "\n")
        stripped == [k \in 1..Len(lines) |-> py_strip(lines[k])]
    IN  py_join(<<"\n">>, SelectSeq(stripped, LAMBDA line : line # <<>>))

\* The stripped lines of the content that contain a query word.
highlight_lines(content, words) ==
    LET lines == py_split(content, "\n")
        hit == SelectSeq(lines, LAMBDA line :
                   \E k \in 1..Len(words) : py_in(words[k], py_lower(line)))
    IN  [k \in 1..Len(hit) |-> py_strip(hit[k])]

\* highlight_text that keeps every matching line, not the first two.
highlight_text_all_lines(content, words) ==
    LET found == highlight_lines(content, words)
        text  == IF found # <<>>
                 THEN py_join(<<"\n">>, found)
                 ELSE py_prefix(content, HighlightMax)
    IN  IF Len(text) > HighlightMax
        THEN py_prefix(text, HighlightMax) \o <<".", ".", ".">>
        ELSE text

\* highlight_text: the first two matching lines, else the first 200
\* characters of the content; cut to 200 characters plus '...'.
highlight_text(content, words) ==
    LET found == highlight_lines(content, words)
        text  == IF found # <<>>
                 THEN py_join(<<"\n">>, py_prefix(found, 2))
                 ELSE py_prefix(content, HighlightMax)
    IN  IF Len(text) > HighlightMax
        THEN py_prefix(text, HighlightMax) \o <<".", ".", ".">>
        ELSE text

\* get_document_excerpts(relevant_docs, query)
get_document_excerpts(relevant_docs, query) ==
    [k \in 1..Len(relevant_docs) |->
        [document  |-> relevant_docs[k].doc_name,
         text      |-> cleaned_content(relevant_docs[k].content),
         highlight |-> highlight_text(relevant_docs[k].content,
                                      highlight_words(query))]]

\* ------------------------------------------------------------------------
\* Response generator: generate_response (src/web_app.py)
\* ------------------------------------------------------------------------

Digits == <<"0", "1", "2", "3", "4", "5", "6", "7", "8", "9">>

RECURSIVE py_str(_)
\* str(n) for a natural number n
py_str(n) ==
    IF n < 10 THEN <<Digits[n + 1]>>
    ELSE Append(py_str(n \div 10), Digits[(n % 10) + 1])

\* f"Document_{i+1}" for the excerpt at position k (k = i + 1)
doc_label(k) == <<"D","o","c","u","m","e","n","t","_">> \o py_str(k)

RECURSIVE build_context(_, _)
\* context += f"\n\n{doc_label} - {excerpt['document']}:\n{excerpt['text']}"
\* for the first k excerpts
build_context(document_excerpts, k) ==
    IF k = 0 THEN <<>>
    ELSE build_context(document_excerpts, k - 1)
         \o <<"\n", "\n">> \o doc_label(k) \o <<" ", "-", " ">>
         \o document_excerpts[k].document \o <<":", "\n">>
         \o document_excerpts[k].text

HistoryWindow == 4

RECURSIVE history_lines(_, _)
\* The role-tagged lines of the first k messages of msgs.
history_lines(msgs, k) ==
    IF k = 0 THEN <<>>
    ELSE history_lines(msgs, k - 1)
         \o (IF msgs[k].role = "user"
             THEN <<"E","m","p","l","o","y","e","e">>
             ELSE <<"A","s","s","i","s","t","a","n","t">>)
         \o <<":", " ">> \o msgs[k].content \o <<"\n">>

\* conversation_context over the whole history, without the window.
conversation_context_whole(conversation_history) ==
    IF conversation_history = <<>> THEN <<>>
    ELSE <<"\n","\n","P","r","e","v","i","o","u","s"," ","c","o","n","v",
           "e","r","s","a","t","i","o","n",":","\n">>
         \o history_lines(conversation_history, Len(conversation_history))

\* conversation_context: empty without history, else the header and one
\* line per message of conversation_history[-4:].
conversation_context(conversation_history) ==
    IF conversation_history = <<>> THEN <<>>
    ELSE <<"\n","\n","P","r","e","v","i","o","u","s"," ","c","o","n","v",
           "e","r","s","a","t","i","o","n",":","\n">>
         \o history_lines(py_suffix(conversation_history, HistoryWindow),
                Len(py_suffix(conversation_history, HistoryWindow)))

\* An entry of a conversation history that is a string, not a dict, has this
\* role in the model.
StrTag == "str"

\* msg.get(...) raises on an entry of conversation_history[-4:] that is no
\* dict: generate_response raises before it calls the API.
history_raises(conversation_history) ==
    \E k \in 1..Len(py_suffix(conversation_history, HistoryWindow)) :
        py_suffix(conversation_history, HistoryWindow)[k].role = StrTag

\* The text returned when the API response holds no content.
NoContentText ==
    <<"I"," ","a","p","o","l","o","g","i","z","e",","," ","b","u","t"," ",
      "I"," ","c","o","u","l","d","n","'","t"," ","g","e","n","e","r","a",
      "t","e"," ","a"," ","p","r","o","p","e","r"," ","r","e","s","p","o",
      "n","s","e",".">>

\* The text returned when the API call raises, before the error detail.
ApologyText ==
    <<"I"," ","a","p","o","l","o","g","i","z","e",","," ","b","u","t"," ",
      "I"," ","e","n","c","o","u","n","t","e","r","e","d"," ","a","n"," ",
      "e","r","r","o","r"," ","p","r","o","c","e","s","s","i","n","g"," ",
      "y","o","u","r"," ","r","e","q","u","e","s","t","."," ","P","l","e",
      "a","s","e"," ","t","r","y"," ","a","g","a","i","n"," ","o","r"," ",
      "c","o","n","t","a","c","t"," ","I","T"," ","s","u","p","p","o","r",
      "t"," ","a","t"," ","i","t","-","h","e","l","p","@","c","o","m","p",
      "a","n","y",".","c","o","m","."," ","E","r","r","o","r",":"," ">>

\* The prompt sent to the API: the fixed instruction text is the same in
\* every prompt, so the prompt is kept as its three variable parts.
build_prompt(query, context, conversation_history) ==
    [context |-> context,
     conversation_context |-> conversation_context(conversation_history),
     query |-> query]

\* generate_response that answers without calling the API when the context
\* is empty.
generate_response_skips_empty(query, context, conversation_history, outcome) ==
    IF context = <<>>
    THEN [prompts |-> <<>>, text |-> NoContentText]
    ELSE [prompts |-> <<build_prompt(query, context, conversation_history)>>,
          text |-> CASE outcome.kind = "text"  -> outcome.text
                     [] outcome.kind = "empty" -> NoContentText
                     [] outcome.kind = "error" -> ApologyText \o outcome.text]

\* generate_response(query, context, conversation_history) with the API's
\* behaviour as outcome: "text" (a content block with that text), "empty"
\* (no content block) or "error" (the call raises, with that detail).
\* Gives the returned text and the prompts sent to the API.
generate_response(query, context, conversation_history, outcome) ==
    [prompts |-> <<build_prompt(query, context, conversation_history)>>,
     text |-> CASE outcome.kind = "text"  -> outcome.text
                [] outcome.kind = "empty" -> NoContentText
                [] outcome.kind = "error" -> ApologyText \o outcome.text]

\* The if/elif chain of classify_query_type: category and its words.
classify_rules ==
    <<
    \* ['pto', 'vacation', 'time off', 'leave', 'holiday']
    [category |-> "PTO & Leave",
     words |-> <<
        <<"p","t","o">>,
        <<"v","a","c","a","t","i","o","n">>,
        <<"t","i","m","e"," ","o","f","f">>,
        <<"l","e","a","v","e">>,
        <<"h","o","l","i","d","a","y">> >>],
    \* ['health', 'medical', 'benefits', 'insurance', 'dental']
    [category |-> "Health Benefits",
     words |-> <<
        <<"h","e","a","l","t","h">>,
        <<"m","e","d","i","c","a","l">>,
        <<"b","e","n","e","f","i","t","s">>,
        <<"i","n","s","u","r","a","n","c","e">>,
        <<"d","e","n","t","a","l">> >>],
    \* ['security', 'password', 'it policy', 'vpn', 'network']
    [category |-> "IT Security",
     words |-> <<
        <<"s","e","c","u","r","i","t","y">>,
        <<"p","a","s","s","w","o","r","d">>,
        <<"i","t"," ","p","o","l","i","c","y">>,
        <<"v","p","n">>,
        <<"n","e","t","w","o","r","k">> >>],
    \* ['handbook', 'policy', 'employee', 'work hours', 'dress code']
    [category |-> "Employee Handbook",
     words |-> <<
        <<"h","a","n","d","b","o","o","k">>,
        <<"p","o","l","i","c","y">>,
        <<"e","m","p","l","o","y","e","e">>,
        <<"w","o","r","k"," ","h","o","u","r","s">>,
        <<"d","r","e","s","s"," ","c","o","d","e">> >>],
    \* ['org', 'organization', 'structure', 'contact', 'email', 'phone']
    [category |-> "Organization",
     words |-> <<
        <<"o","r","g">>,
        <<"o","r","g","a","n","i","z","a","t","i","o","n">>,
        <<"s","t","r","u","c","t","u","r","e">>,
        <<"c","o","n","t","a","c","t">>,
        <<"e","m","a","i","l">>,
        <<"p","h","o","n","e">> >>],
    \* ['claude', 'ai', 'usage', 'policy']
    [category |-> "AI Usage",
     words |-> <<
        <<"c","l","a","u","d","e">>,
        <<"a","i">>,
        <<"u","s","a","g","e">>,
        <<"p","o","l","i","c","y">> >>]
    >>

RECURSIVE classify_loop_last(_, _)
\* classify_loop in which the last matching rule wins.
classify_loop_last(query_lower, k) ==
    IF k > Len(classify_rules) THEN "General"
    ELSE LET later == classify_loop_last(query_lower, k + 1)
         IN  IF later # "General" THEN later
             ELSE IF \E i \in 1..Len(classify_rules[k].words) :
                         py_in(classify_rules[k].words[i], query_lower)
                  THEN classify_rules[k].category
                  ELSE "General"

RECURSIVE classify_loop(_, _)
classify_loop(query_lower, k) ==
    IF k > Len(classify_rules) THEN "General"
    ELSE IF \E i \in 1..Len(classify_rules[k].words) :
                py_in(classify_rules[k].words[i], query_lower)
         THEN classify_rules[k].category
         ELSE classify_loop(query_lower, k + 1)

\* classify_query_type(query)
classify_query_type(query) == classify_loop(py_lower(query), 1)

\* ------------------------------------------------------------------------
\* Usage ledger: log_usage_analytics (src/web_app.py)
\* ------------------------------------------------------------------------

\* d[key] += 1 on a dict of counters, the key created at 0 when missing.
dict_incr(d, key) ==
    IF key \in DOMAIN d THEN [d EXCEPT ![key] = @ + 1]
    ELSE [k \in DOMAIN d \cup {key} |-> IF k = key THEN 1 ELSE d[k]]

\* count_documents that counts the first document used only.
count_documents_first(documents_accessed, documents_used, k) ==
    IF documents_used = <<>> THEN documents_accessed
    ELSE dict_incr(documents_accessed, documents_used[1].document)

RECURSIVE count_documents(_, _, _)
\* for doc in documents_used: documents_accessed[doc['document']] += 1
count_documents(documents_accessed, documents_used, k) ==
    IF k > Len(documents_used) THEN documents_accessed
    ELSE count_documents(
             dict_incr(documents_accessed, documents_used[k].document),
             documents_used, k + 1)

PopularQueryLen == 100
PopularQueriesKept == 50

\* A JSON array (a Python list) is kept as a sequence headed by ListTag;
\* every other value of the model is a string.  A list is not hashable: it
\* cannot be a dict key or a set element.
ListTag == "list"
py_hashable(v) == ~(Len(v) >= 1 /\ v[1] = ListTag)

\* usage_analytics['users'] after the user's entry was created if missing
\* and its query_count incremented (lines 245-255).
count_user(users, user_id) ==
    LET old == IF user_id \in DOMAIN users THEN users[user_id]
               ELSE [query_count |-> 0, departments |-> {}]
    IN  [u \in DOMAIN users \cup {user_id} |->
            IF u = user_id THEN [old EXCEPT !.query_count = @ + 1]
            ELSE users[u]]

\* log_usage_analytics raises TypeError on an unhashable user_id
\* ('user_id not in usage_analytics["users"]') or department
\* ('user_data["departments"].add(department)').
log_raises(user_id, department) ==
    ~py_hashable(user_id) \/ ~py_hashable(department)

\* usage_analytics after log_usage_analytics(user_id, department, query,
\* response_time, documents_used, error_occurred), also when the call
\* raises part-way: the updates made before the failing line are kept.  The
\* entries that hold clock readings (daily_usage, response_times,
\* first_seen, last_seen) are left out of the model.
log_usage_analytics(analytics, user_id, department, query, documents_used, error_occurred) ==
    IF ~py_hashable(user_id)
    THEN [analytics EXCEPT !.total_queries = @ + 1]
    ELSE IF ~py_hashable(department)
    THEN [analytics EXCEPT !.total_queries = @ + 1,
                           !.users = count_user(@, user_id)]
    ELSE
    [total_queries |-> analytics.total_queries + 1,
     users |->
        LET counted == count_user(analytics.users, user_id)
        IN  [counted EXCEPT ![user_id].departments = @ \cup {department}],
     departments |-> dict_incr(analytics.departments, department),
     documents_accessed |->
        count_documents(analytics.documents_accessed, documents_used, 1),
     query_types |->
        dict_incr(analytics.query_types, classify_query_type(query)),
     popular_queries |->
        py_suffix(Append(analytics.popular_queries,
                         py_prefix(query, PopularQueryLen)),
                  PopularQueriesKept),
     error_count |->
        analytics.error_count + (IF error_occurred THEN 1 ELSE 0)]

\* ------------------------------------------------------------------------
\* Source attribution and process_query (src/web_app.py)
\* ------------------------------------------------------------------------

MinPhraseLen == 20
MaxKeyPhrases == 3
MinWordLen == 4
MinPhraseWords == 2

\* key_phrases_from_doc: the first 3 stripped pieces between periods of the
\* lowercased text that are longer than 20 characters.
key_phrases_from_doc(excerpt_text) ==
    LET pieces == py_split(excerpt_text, ".")
        stripped == [k \in 1..Len(pieces) |-> py_strip(pieces[k])]
    IN  py_prefix(SelectSeq(stripped, LAMBDA p : Len(p) > MinPhraseLen),
                  MaxKeyPhrases)

\* any(part in response_lower for part in doc_name.replace('_', ' ').split())
name_is_mentioned(doc_name, response_lower) ==
    LET parts == py_split_ws(py_replace(doc_name, "_", " "))
    IN  \E k \in 1..Len(parts) : py_in(parts[k], response_lower)

\* phrase_is_echoed without the minimum number of significant words.
phrase_is_echoed_any_length(phrase, response_lower) ==
    LET phrase_words == SelectSeq(py_split_ws(phrase),
                                  LAMBDA w : Len(w) > MinWordLen)
        matching_words == count_in(phrase_words, response_lower)
    IN  matching_words * 10 >= Len(phrase_words) * 6

\* phrase_is_echoed with the overlap threshold at 50% instead of 60%.
phrase_is_echoed_half(phrase, response_lower) ==
    LET phrase_words == SelectSeq(py_split_ws(phrase),
                                  LAMBDA w : Len(w) > MinWordLen)
        matching_words == count_in(phrase_words, response_lower)
    IN  /\ Len(phrase_words) >= MinPhraseWords
        /\ matching_words * 2 >= Len(phrase_words)

\* The test on one key phrase: at least 2 words longer than 4 characters,
\* of which at least 60% occur in the response
\* (matching_words >= len(phrase_words) * 0.6).
phrase_is_echoed(phrase, response_lower) ==
    LET phrase_words == SelectSeq(py_split_ws(phrase),
                                  LAMBDA w : Len(w) > MinWordLen)
        matching_words == count_in(phrase_words, response_lower)
    IN  /\ Len(phrase_words) >= MinPhraseWords
        /\ matching_words * 10 >= Len(phrase_words) * 6

\* is_referenced for one excerpt.
is_referenced(excerpt, response_lower) ==
    LET doc_name == py_lower(excerpt.document)
        excerpt_text == py_lower(excerpt.text)
        phrases == key_phrases_from_doc(excerpt_text)
    IN  \/ name_is_mentioned(doc_name, response_lower)
        \/ \E k \in 1..Len(phrases) :
               phrase_is_echoed(phrases[k], response_lower)

\* actual_sources that lists the referenced excerpts in reverse order.
actual_sources_reversed(document_excerpts, response) ==
    LET kept == SelectSeq(document_excerpts,
                    LAMBDA excerpt : is_referenced(excerpt, py_lower(response)))
    IN  [k \in 1..Len(kept) |-> kept[Len(kept) + 1 - k]]

\* actual_sources: the excerpts that are referenced, in their order.
actual_sources(document_excerpts, response) ==
    SelectSeq(document_excerpts,
              LAMBDA excerpt : is_referenced(excerpt, py_lower(response)))

\* The one tip a result with sources carries (without its leading emoji).
SourceTip == "Click on document links to view the full source documents"

\* optimization_tips that always gives the tip.
optimization_tips_always(sources) == <<SourceTip>>

\* optimization_tips: [tip] if actual_sources else []
optimization_tips(sources) == IF sources # <<>> THEN <<SourceTip>> ELSE <<>>

\* The result of a request that returned none.
NoResult == [response |-> <<>>, sources |-> <<>>, optimization_tips |-> <<>>]

\* Everything process_query computes for one request: the candidates, the
\* excerpts, the prompts sent to the generator, the returned result and
\* usage_analytics after the ledger update.  processing_time, a clock
\* reading, is left out of the result.  When generate_response or the
\* ledger update raises, the except branch logs the request, as an error and
\* without documents, and re-raises: `raised` is set and there is no result.
process_query(query, user_id, department, conversation_history, outcome) ==
    LET relevant_docs == find_relevant_documents(query)
        document_excerpts == get_document_excerpts(relevant_docs, query)
        context == build_context(document_excerpts, Len(document_excerpts))
        failed == history_raises(conversation_history)
        generated == generate_response(query, context, conversation_history,
                                       outcome)
        sources == actual_sources(document_excerpts, generated.text)
        logged == log_usage_analytics(usage_analytics, user_id, department,
                                      query, sources, FALSE)
        raised == failed \/ log_raises(user_id, department)
    IN  [relevant_docs |-> relevant_docs,
         document_excerpts |-> document_excerpts,
         prompts |-> IF failed THEN <<>> ELSE generated.prompts,
         raised |-> raised,
         result |-> IF raised THEN NoResult
                    ELSE [response |-> generated.text,
                          sources |-> sources,
                          optimization_tips |-> optimization_tips(sources)],
         analytics |-> IF failed
                       THEN log_usage_analytics(usage_analytics, user_id,
                                department, query, <<>>, TRUE)
                       ELSE IF raised
                       THEN log_usage_analytics(logged, user_id, department,
                                                query, <<>>, TRUE)
                       ELSE logged]

\* ------------------------------------------------------------------------
\* Requests: EnterpriseHandler.handle_chat, handle_reset_chat
\* ------------------------------------------------------------------------

SessionLimit == 20

\* Bounds of the model.
MaxFolderFiles == 3      \* files in the documents folder
MaxRequests == 3         \* chat requests processed
MaxHistory == 5          \* entries of a conversation history

\* The user ids and departments a chat request may carry.
UserIds == {<<"u","1">>}
Departments == {<<"H","R">>}

\* Who sends a chat request: user_id and department of the JSON body.
Callers == {[user_id |-> u, department |-> d] : u \in UserIds, d \in Departments}

\* The callers of Callers, and two whose user_id or department is a JSON
\* array (["u1"], ["HR"]).
AllCallers ==
    Callers
    \cup {[user_id |-> <<ListTag, "u", "1">>, department |-> <<"H","R">>],
          [user_id |-> <<"u","1">>, department |-> <<ListTag, "H", "R">>]}

\* The conversation histories a chat request may carry.
Histories == {<<>>}

\* The histories of the first chat request: none, or one whose entry is a
\* string, on which generate_response raises.
QueryHistories ==
    {<<>>, <<[role |-> StrTag, content |-> <<"h","i">>]>>}

\* The entries of a conversation history: dicts with a role and a content.
HistoryMessages ==
    {[role |-> "user", content |-> <<"h","i">>],
     [role |-> "assistant", content |-> <<"o","k">>],
     [role |-> "system", content |-> <<"n","b">>]}

\* The conversation histories of at most MaxHistory entries.
AllHistories == UNION {[1..n -> HistoryMessages] : n \in 0..MaxHistory}

\* What the generator may do with a prompt.
Outcomes ==
    {[kind |-> "text", text |-> AnswerTexts[k]] : k \in 1..Len(AnswerTexts)}
    \cup {[kind |-> "empty", text |-> <<>>],
          [kind |-> "error", text |-> <<"t","i","m","e","o","u","t">>]}

\* The record kept of a request in `last`: what it carried, what the API
\* call did, what was computed and answered.
NoOutcome == [kind |-> "none", text |-> <<>>]
NoRequest ==
    [op |-> "none", status |-> 0, query |-> <<>>,
     conversation_history |-> <<>>, outcome |-> NoOutcome,
     admitted |-> <<>>, relevant_docs |-> <<>>, document_excerpts |-> <<>>,
     prompts |-> <<>>, result |-> NoResult]

\* matcher_log with the candidates a chat request obtained for a query,
\* when it is the first chat request with that query.
log_first(log, query, relevant_docs) ==
    IF query \in DOMAIN log THEN log
    ELSE [q \in DOMAIN log \cup {query} |->
            IF q = query THEN relevant_docs ELSE log[q]]

\* f"{user_id}_{department}"
session_id_of(user_id, department) == user_id \o <<"_">> \o department

\* store_conversation that keeps the first 20 messages of a session.
store_conversation_keep_first(sessions, session_id, query, department, result) ==
    LET old == IF session_id \in DOMAIN sessions
               THEN sessions[session_id] ELSE <<>>
        new == old
               \o <<[type |-> "user", content |-> query,
                     department |-> department, sources |-> <<>>],
                    [type |-> "bot", content |-> result.response,
                     department |-> <<>>, sources |-> result.sources]>>
        kept == IF Len(new) > SessionLimit
                THEN py_prefix(new, SessionLimit) ELSE new
    IN  [s \in DOMAIN sessions \cup {session_id} |->
            IF s = session_id THEN kept ELSE sessions[s]]

\* conversation_sessions after a served chat request: the user message and
\* the bot message appended, the session cut to its last 20 messages.
store_conversation(sessions, session_id, query, department, result) ==
    LET old == IF session_id \in DOMAIN sessions
               THEN sessions[session_id] ELSE <<>>
        new == old
               \o <<[type |-> "user", content |-> query,
                     department |-> department, sources |-> <<>>],
                    [type |-> "bot", content |-> result.response,
                     department |-> <<>>, sources |-> result.sources]>>
        kept == IF Len(new) > SessionLimit
                THEN py_suffix(new, SessionLimit) ELSE new
    IN  [s \in DOMAIN sessions \cup {session_id} |->
            IF s = session_id THEN kept ELSE sessions[s]]

\* handle_chat with an empty query (after strip): 400, nothing else happens.
HandleChatEmpty(raw_query) ==
    /\ py_strip(raw_query) = <<>>
    /\ last' = [NoRequest EXCEPT !.op = "chat", !.status = 400,
                    !.query = py_strip(raw_query)]
    /\ UNCHANGED <<folder_exists, folder_listing, usage_analytics,
                   conversation_sessions, matcher_log>>

\* handle_chat without the test of the empty query: every query is processed.
HandleChat_any_query(raw_query, user_id, department, conversation_history, outcome) ==
    \E query \in {py_strip(raw_query)} :
    \E done \in {process_query(query, user_id, department,
                               conversation_history, outcome)} :
       /\ folder_exists' = FolderAfterScan(folder_exists)
       /\ usage_analytics' = done.analytics
       /\ conversation_sessions' =
             IF done.raised THEN conversation_sessions
             ELSE store_conversation(conversation_sessions,
                      session_id_of(user_id, department), query,
                      department, done.result)
       /\ matcher_log' = log_first(matcher_log, query, done.relevant_docs)
       /\ last' = [op |-> "chat",
                   status |-> IF done.raised THEN 500 ELSE 200,
                   query |-> query,
                   conversation_history |-> conversation_history,
                   outcome |-> outcome, admitted |-> <<>>,
                   relevant_docs |-> done.relevant_docs,
                   document_excerpts |-> done.document_excerpts,
                   prompts |-> done.prompts, result |-> done.result]
       /\ UNCHANGED folder_listing

\* handle_chat: the query is processed, the conversation stored, 200 sent;
\* when process_query raises, 500 is sent and nothing is stored.
HandleChat(raw_query, user_id, department, conversation_history, outcome) ==
    /\ py_strip(raw_query) # <<>>
    /\ \E query \in {py_strip(raw_query)} :
       \E done \in {process_query(query, user_id, department,
                                  conversation_history, outcome)} :
          /\ folder_exists' = FolderAfterScan(folder_exists)
          /\ usage_analytics' = done.analytics
          /\ conversation_sessions' =
                IF done.raised THEN conversation_sessions
                ELSE store_conversation(conversation_sessions,
                         session_id_of(user_id, department), query,
                         department, done.result)
          /\ matcher_log' = log_first(matcher_log, query, done.relevant_docs)
          /\ last' = [op |-> "chat",
                      status |-> IF done.raised THEN 500 ELSE 200,
                      query |-> query,
                      conversation_history |-> conversation_history,
                      outcome |-> outcome, admitted |-> <<>>,
                      relevant_docs |-> done.relevant_docs,
                      document_excerpts |-> done.document_excerpts,
                      prompts |-> done.prompts, result |-> done.result]
          /\ UNCHANGED folder_listing

\* handle_reset_chat: every session is cleared.
HandleResetChat ==
    /\ conversation_sessions' = <<>>
    /\ last' = [NoRequest EXCEPT !.op = "reset", !.status = 200]
    /\ UNCHANGED <<folder_exists, folder_listing, usage_analytics,
                   matcher_log>>

\* A direct call find_relevant_documents(query); the list as it is before
\* the sort and the cutoff is recorded next to the list returned.
FindRelevantDocuments(query) ==
    \E relevant_docs \in {find_relevant_documents(query)},
       admitted \in {admitted_docs(query)} :
        /\ folder_exists' = FolderAfterScan(folder_exists)
        /\ last' = [NoRequest EXCEPT !.op = "find", !.query = query,
                        !.admitted = admitted,
                        !.relevant_docs = relevant_docs]
        /\ UNCHANGED <<folder_listing, usage_analytics,
                       conversation_sessions, matcher_log>>

\* A direct call generate_response(query, context, conversation_history).
GenerateResponse(query, context, conversation_history, outcome) ==
    \E generated \in {generate_response(query, context,
                                        conversation_history, outcome)} :
        /\ last' = [NoRequest EXCEPT !.op = "generate", !.query = query,
                        !.conversation_history = conversation_history,
                        !.outcome = outcome,
                        !.prompts = generated.prompts,
                        !.result.response = generated.text]
        /\ UNCHANGED <<folder_exists, folder_listing, usage_analytics,
                       conversation_sessions, matcher_log>>

\* ------------------------------------------------------------------------
\* SimpleUserAuth (src/simple_auth.py) and the routes of EnterpriseHandler
\* ------------------------------------------------------------------------

SessionHours == 24       \* timedelta(hours=24)

\* hash_password: the SHA-256 digest of the password, taken as injective.
hash_password(password) == <<"sha256">> \o password

\* The password the sample employees are created with.
SamplePassword == <<"p","a","s","s","w","o","r","d","1","2","3">>

JohnDoe == <<"j","o","h","n",".","d","o","e">>
JaneSmith == <<"j","a","n","e",".","s","m","i","t","h">>
BobWilson == <<"b","o","b",".","w","i","l","s","o","n">>

\* data['employees'] of user_data.json: the sample employees john.doe (an
\* admin) and jane.smith as init_data_storage creates them, and bob.wilson
\* with is_active set to false in the file.
employees ==
    (JohnDoe :> [employee_id |-> "EMP001", username |-> JohnDoe,
                 password_hash |-> hash_password(SamplePassword),
                 is_admin |-> TRUE, is_active |-> TRUE])
    @@ (JaneSmith :> [employee_id |-> "EMP002", username |-> JaneSmith,
                      password_hash |-> hash_password(SamplePassword),
                      is_admin |-> FALSE, is_active |-> TRUE])
    @@ (BobWilson :> [employee_id |-> "EMP003", username |-> BobWilson,
                      password_hash |-> hash_password(SamplePassword),
                      is_admin |-> FALSE, is_active |-> FALSE])

\* No cookie, or a cookie without session_token.
NoToken == 0

\* None where a user is expected.
NoUser == [employee_id |-> "None", username |-> <<>>, is_admin |-> FALSE]

\* secrets.token_urlsafe(32): a token that was never issued before.
token_urlsafe(tokens_issued) == Cardinality(DOMAIN tokens_issued) + 1

\* create_session: the token is stored with the employee and the time 24
\* hours from now.
create_session(table, employee_id, session_token, time) ==
    [t \in DOMAIN table \cup {session_token} |->
        IF t = session_token
        THEN [employee_id |-> employee_id, expires_at |-> time + SessionHours]
        ELSE table[t]]

\* authenticate_user: a session is created when the user exists, the hash of
\* the password is the stored one and the user is active; else None.
authenticate_user(table, username, password, session_token, time) ==
    IF /\ username \in DOMAIN employees
       /\ employees[username].password_hash = hash_password(password)
       /\ employees[username].is_active
    THEN [session_token |-> session_token,
          sessions |-> create_session(table, employees[username].employee_id,
                                      session_token, time)]
    ELSE [session_token |-> NoToken, sessions |-> table]

\* del self.sessions[session_token]
del_session(table, session_token) ==
    [t \in DOMAIN table \ {session_token} |-> table[t]]

\* The user whose employee_id is the session's, None when there is none.
user_of_employee(employee_id) ==
    LET named == {u \in DOMAIN employees :
                      employees[u].employee_id = employee_id}
    IN  IF named = {} THEN NoUser
        ELSE LET u == CHOOSE u \in named : TRUE
             IN  [employee_id |-> employee_id, username |-> u,
                  is_admin |-> employees[u].is_admin]

\* get_user_from_session at the given time: None for no token or a token
\* that is not in the table; an expired session is deleted and None
\* returned; else the user of the session.
get_user_from_session(table, session_token, time) ==
    IF session_token = NoToken \/ session_token \notin DOMAIN table
    THEN [user |-> NoUser, sessions |-> table]
    ELSE IF table[session_token].expires_at < time
    THEN [user |-> NoUser, sessions |-> del_session(table, session_token)]
    ELSE [user |-> user_of_employee(table[session_token].employee_id),
          sessions |-> table]

\* logout_user: the session is deleted when it is in the table.
logout_user(table, session_token) ==
    IF session_token \in DOMAIN table
    THEN del_session(table, session_token) ELSE table

\* Bounds of the authentication model.
MaxTokens == 2           \* sessions created
TickHours == 12          \* hours between two readings of the clock
MaxClock == 36           \* hours the clock runs

\* The record kept of a request in auth_last.
NoAuthRequest ==
    [op |-> "none", route |-> "", token |-> NoToken, status |-> 0,
     user |-> NoUser, at |-> 0]

\* The routes that only call require_auth before their handler.
PlainRoutes ==
    {"/", "/api/documents", "/api/analytics", "/document/", "/api/chat",
     "/api/reset_chat"}

\* handle_login: username and password are trimmed; when one is empty or
\* authenticate_user returns None the answer is a redirect to /login, else
\* a redirect to / with the session cookie.
HandleLogin(raw_username, raw_password) ==
    \E username \in {py_strip(raw_username)},
       password \in {py_strip(raw_password)} :
    \E done \in {IF username = <<>> \/ password = <<>>
                 THEN [session_token |-> NoToken, sessions |-> auth_sessions]
                 ELSE authenticate_user(auth_sessions, username, password,
                                        token_urlsafe(issued), now)} :
        /\ auth_sessions' = done.sessions
        /\ issued' =
              IF done.session_token = NoToken THEN issued
              ELSE [t \in DOMAIN issued \cup {done.session_token} |->
                       IF t = done.session_token
                       THEN [username |-> username, password |-> password,
                             at |-> now]
                       ELSE issued[t]]
        /\ auth_last' = [NoAuthRequest EXCEPT !.op = "login",
                             !.route = "/api/login",
                             !.token = done.session_token,
                             !.status = 302, !.at = now]
        /\ UNCHANGED <<now, logged_out>>

\* handle_logout: the session of the cookie's token is deleted.
HandleLogout(session_token) ==
    /\ auth_sessions' = logout_user(auth_sessions, session_token)
    /\ logged_out' = IF session_token \in DOMAIN auth_sessions
                     THEN logged_out \cup {session_token} ELSE logged_out
    /\ auth_last' = [NoAuthRequest EXCEPT !.op = "logout",
                         !.route = "/logout", !.token = session_token,
                         !.status = 302, !.at = now]
    /\ UNCHANGED <<now, issued>>

\* A route that calls require_auth and then its handler: a redirect to
\* /login when get_current_user returns None, else the handler's answer.
ServePlainRoute(route, session_token) ==
    \E first \in {get_user_from_session(auth_sessions, session_token, now)} :
        /\ auth_sessions' = first.sessions
        /\ auth_last' = [op |-> "request", route |-> route,
                         token |-> session_token,
                         status |-> IF first.user = NoUser THEN 302 ELSE 200,
                         user |-> first.user, at |-> now]
        /\ UNCHANGED <<now, issued, logged_out>>

\* GET /admin: require_auth, then get_current_user a second time, `elapsed`
\* hours later; 403 when that call returns a user who is no admin, else the
\* dashboard.
ServeAdmin(session_token, elapsed) ==
    \E first \in {get_user_from_session(auth_sessions, session_token, now)} :
    \E second \in {get_user_from_session(first.sessions, session_token,
                                         now + elapsed)} :
        IF first.user = NoUser
        THEN /\ auth_sessions' = first.sessions
             /\ auth_last' = [op |-> "request", route |-> "/admin",
                              token |-> session_token, status |-> 302,
                              user |-> NoUser, at |-> now]
             /\ UNCHANGED <<now, issued, logged_out>>
        ELSE /\ auth_sessions' = second.sessions
             /\ now' = now + elapsed
             /\ auth_last' = [op |-> "request", route |-> "/admin",
                              token |-> session_token,
                              status |-> IF second.user # NoUser
                                             /\ ~second.user.is_admin
                                         THEN 403 ELSE 200,
                              user |-> second.user, at |-> now]
             /\ UNCHANGED <<issued, logged_out>>

\* GET /api/user: require_auth, then serve_current_user calls
\* get_current_user a second time, `elapsed` hours later, and answers 401
\* when that call returns None.
ServeCurrentUser(session_token, elapsed) ==
    \E first \in {get_user_from_session(auth_sessions, session_token, now)} :
    \E second \in {get_user_from_session(first.sessions, session_token,
                                         now + elapsed)} :
        IF first.user = NoUser
        THEN /\ auth_sessions' = first.sessions
             /\ auth_last' = [op |-> "request", route |-> "/api/user",
                              token |-> session_token, status |-> 302,
                              user |-> NoUser, at |-> now]
             /\ UNCHANGED <<now, issued, logged_out>>
        ELSE /\ auth_sessions' = second.sessions
             /\ now' = now + elapsed
             /\ auth_last' = [op |-> "request", route |-> "/api/user",
                              token |-> session_token,
                              status |-> IF second.user = NoUser
                                         THEN 401 ELSE 200,
                              user |-> second.user, at |-> now]
             /\ UNCHANGED <<issued, logged_out>>

\* Time passes between two requests.
Tick ==
    /\ now < MaxClock
    /\ now' = now + TickHours
    /\ UNCHANGED <<auth_sessions, issued, logged_out, auth_last>>

\* ------------------------------------------------------------------------
\* Specifications
\* ------------------------------------------------------------------------

\* The listings of at most MaxFolderFiles distinct files, in any order.
Listings ==
    UNION {{l \in [1..n -> 1..Len(FilePool)] :
                \A i, j \in 1..n : i # j => l[i] # l[j]} :
           n \in 0..MaxFolderFiles}

\* The listings that give the files in the order of FilePool.
OrderedListings ==
    {l \in Listings : \A i, j \in 1..Len(l) : i < j => l[i] < l[j]}

\* The listings that give the first files of FilePool.
PrefixListings == {l \in Listings : \A i \in 1..Len(l) : l[i] = i}

InitGlobals ==
    /\ usage_analytics =
          [total_queries |-> 0, users |-> <<>>, departments |-> <<>>,
           documents_accessed |-> <<>>, query_types |-> <<>>,
           popular_queries |-> <<>>, error_count |-> 0]
    /\ conversation_sessions = <<>>
    /\ matcher_log = <<>>
    /\ last = NoRequest
    /\ auth_sessions = <<>>
    /\ now = 0
    /\ issued = <<>>
    /\ logged_out = {}
    /\ auth_last = NoAuthRequest

\* The documents folder is missing, or holds one of the listings.
InitFolder(listings) ==
    \/ folder_exists = FALSE /\ folder_listing = <<>>
    \/ folder_exists = TRUE /\ folder_listing \in listings

\* A chat request with a query, a caller, a conversation history and a
\* generator outcome of the given sets.
ChatRequest(queries, callers, histories, outcomes) ==
    \E raw_query \in queries, caller \in callers, history \in histories,
       outcome \in outcomes :
        HandleChat(raw_query, caller.user_id, caller.department, history,
                   outcome)

\* The queries and generator outcomes of the server's chat requests.
ChatQueries == {Queries[1], Queries[2], Queries[5], Queries[7]}
ChatOutcomes ==
    {[kind |-> "text", text |-> AnswerTexts[k]] : k \in {3, 4}}

\* The server after initialize_app: the globals as created, the documents
\* folder missing or holding some files.
Init == InitFolder(PrefixListings) /\ InitGlobals

\* The server: chat and reset requests, at most MaxRequests queries processed.
Next ==
    /\ \/ /\ usage_analytics.total_queries < MaxRequests
          /\ ChatRequest(ChatQueries, Callers, Histories, ChatOutcomes)
       \/ \E raw_query \in ChatQueries : HandleChatEmpty(raw_query)
       \/ HandleResetChat
    /\ UNCHANGED auth_vars

Spec == Init /\ [][Next]_vars

\* The first chat request of a server: any ordered listing and any query;
\* a well-formed request with any generator outcome, or any caller and
\* history with one of the outcomes of the server's requests.
InitQuery == InitFolder(OrderedListings) /\ InitGlobals

AllQueries == {Queries[k] : k \in 1..Len(Queries)}

NextQuery ==
    /\ usage_analytics.total_queries = 0
    /\ \/ ChatRequest(AllQueries, Callers, Histories, Outcomes)
       \/ ChatRequest(AllQueries, AllCallers, QueryHistories, ChatOutcomes)
    /\ UNCHANGED auth_vars

SpecQuery == InitQuery /\ [][NextQuery]_vars

\* The relevance matcher alone, called once: any listing of the folder, any
\* query.
InitMatcher == InitFolder(Listings) /\ InitGlobals

NextMatcher ==
    /\ last = NoRequest
    /\ \E query \in AllQueries : FindRelevantDocuments(query)
    /\ UNCHANGED auth_vars

SpecMatcher == InitMatcher /\ [][NextMatcher]_vars

\* The response generator alone, called once: any conversation history,
\* any outcome of the API call.
InitGenerator == InitFolder({<<>>}) /\ InitGlobals

NextGenerator ==
    /\ last = NoRequest
    /\ \E conversation_history \in AllHistories, outcome \in Outcomes :
           GenerateResponse(Queries[1], <<>>, conversation_history, outcome)
    /\ UNCHANGED auth_vars

SpecGenerator == InitGenerator /\ [][NextGenerator]_vars

\* A direct call get_document_excerpts(relevant_docs, query).
GetDocumentExcerpts(relevant_docs, query) ==
    /\ last' = [NoRequest EXCEPT !.op = "excerpts", !.query = query,
                    !.relevant_docs = relevant_docs,
                    !.document_excerpts =
                        get_document_excerpts(relevant_docs, query)]
    /\ UNCHANGED <<folder_exists, folder_listing, usage_analytics,
                   conversation_sessions, matcher_log>>

MaxLines == 3            \* lines of a candidate's content
LongLineLen == 210       \* more than the 200 characters a highlight keeps

\* A line of filler longer than a highlight may be.
LongLine == [i \in 1..LongLineLen |-> IF i % 3 = 0 THEN " " ELSE "z"]

\* The lines a candidate's content is made of: lines with and without
\* words of the queries, padded, empty and overlong ones.
LinePool ==
    <<
    \* 'Vacation days accrue monthly.'
    <<"V","a","c","a","t","i","o","n"," ","d","a","y","s"," ","a","c","c",
      "r","u","e"," ","m","o","n","t","h","l","y",".">>,
    \* '  Insurance forms are due.  '
    <<" "," ","I","n","s","u","r","a","n","c","e"," ","f","o","r","m","s",
      " ","a","r","e"," ","d","u","e","."," "," ">>,
    \* ''
    <<>>,
    \* 'The end.'
    <<"T","h","e"," ","e","n","d",".">>,
    LongLine,
    \* 'Many vacation ' and the filler
    <<"M","a","n","y"," ","v","a","c","a","t","i","o","n"," ">> \o LongLine
    >>

\* The contents of up to MaxLines lines.
Contents ==
    {py_join(<<"\n">>, [k \in 1..Len(l) |-> LinePool[l[k]]]) :
         l \in UNION {[1..n -> 1..Len(LinePool)] : n \in 0..MaxLines}}

ExcerptQueries == {Queries[2], Queries[5], Queries[6], Queries[9]}

\* The context assembler alone, called once on one candidate: any content,
\* a query with matching words, without, with none, with a stop word.
InitExcerpts == InitFolder({<<>>}) /\ InitGlobals

NextExcerpts ==
    /\ last = NoRequest
    /\ \E content \in Contents, query \in ExcerptQueries :
           GetDocumentExcerpts(
               <<[doc_name |-> <<"n","o","t","e","s">>,
                  file_path |-> path_join(documents_folder,
                                    <<"n","o","t","e","s",".","t","x","t">>),
                  score |-> MinScore,
                  content |-> content]>>,
               query)
    /\ UNCHANGED auth_vars

SpecExcerpts == InitExcerpts /\ [][NextExcerpts]_vars

\* A direct call log_usage_analytics(user_id, department, query,
\* response_time, documents_used, error_occurred) that does not raise.
LogUsageAnalytics(user_id, department, query, documents_used, error_occurred) ==
    /\ usage_analytics' =
           log_usage_analytics(usage_analytics, user_id, department, query,
                               documents_used, error_occurred)
    /\ last' = [NoRequest EXCEPT !.op = "log", !.query = query]
    /\ UNCHANGED <<folder_exists, folder_listing, conversation_sessions,
                   matcher_log>>

MaxWords == 2            \* words of a classified query

\* The words the classified queries are made of: keywords of each rule,
\* a word in no rule, and a word that holds a keyword inside it.
WordPool ==
    <<
    \* 'Vacation'
    <<"V","a","c","a","t","i","o","n">>,
    \* 'dental'
    <<"d","e","n","t","a","l">>,
    \* 'VPN'
    <<"V","P","N">>,
    \* 'Handbook'
    <<"H","a","n","d","b","o","o","k">>,
    \* 'policy'
    <<"p","o","l","i","c","y">>,
    \* 'email'
    <<"e","m","a","i","l">>,
    \* 'usage'
    <<"u","s","a","g","e">>,
    \* 'Claude'
    <<"C","l","a","u","d","e">>,
    \* 'xyz'
    <<"x","y","z">>,
    \* 'maintain'
    <<"m","a","i","n","t","a","i","n">>
    >>

\* The queries of up to MaxWords words of the pool, separated by a space.
WordQueries ==
    {py_join(<<" ">>, [k \in 1..Len(l) |-> WordPool[l[k]]]) :
         l \in UNION {[1..n -> 1..Len(WordPool)] : n \in 0..MaxWords}}

\* The usage ledger alone, called once: any query of the word pool.
InitLedger == InitFolder({<<>>}) /\ InitGlobals

NextLedger ==
    /\ last = NoRequest
    /\ \E query \in WordQueries, caller \in Callers, error_occurred \in BOOLEAN :
           LogUsageAnalytics(caller.user_id, caller.department, query, <<>>,
                             error_occurred)
    /\ UNCHANGED auth_vars

SpecLedger == InitLedger /\ [][NextLedger]_vars

\* The chat sessions of one server: requests of one user from two
\* departments, enough of them for a session to pass 20 messages, and
\* resets; there is no documents folder. The first message stored after a
\* reset may carry another answer than the later ones.
MaxChats == 12           \* chat requests processed by the session server

\* The callers of the session server: one user in two departments.
SessionCallers ==
    {[user_id |-> <<"u","1">>, department |-> <<"H","R">>],
     [user_id |-> <<"u","1">>, department |-> <<"I","T">>]}

\* The query, the usual answer and the answer of an opening request.
SessionQueries == {Queries[2]}
SessionOutcomes == {[kind |-> "text", text |-> AnswerTexts[4]]}
OpeningOutcomes == {[kind |-> "text", text |-> AnswerTexts[3]]}

InitSessions == folder_exists = FALSE /\ folder_listing = <<>> /\ InitGlobals

NextSessions ==
    /\ \/ /\ usage_analytics.total_queries < MaxChats
          /\ ChatRequest(SessionQueries, SessionCallers, Histories,
                         SessionOutcomes)
       \/ /\ usage_analytics.total_queries < MaxChats
          /\ conversation_sessions = <<>>
          /\ ChatRequest(SessionQueries, Callers, Histories, OpeningOutcomes)
       \/ HandleResetChat
    /\ UNCHANGED auth_vars

SpecSessions == InitSessions /\ [][NextSessions]_vars

\* The authentication of one server: logins with right and wrong
\* credentials, logouts, requests of every protected route with any token
\* and the passing of time, between requests and inside the two handlers
\* that look the session up twice.
Usernames == {JohnDoe, JaneSmith, BobWilson, <<"e","v","e">>, <<>>}
Passwords == {SamplePassword, <<"g","u","e","s","s">>}
Tokens == 0..MaxTokens
Elapsed == {0, TickHours}

InitAuth == folder_exists = FALSE /\ folder_listing = <<>> /\ InitGlobals

NextAuth ==
    /\ \/ /\ Cardinality(DOMAIN issued) < MaxTokens
          /\ \E raw_username \in Usernames, raw_password \in Passwords :
                 HandleLogin(raw_username, raw_password)
       \/ \E session_token \in Tokens : HandleLogout(session_token)
       \/ \E route \in PlainRoutes, session_token \in Tokens :
              ServePlainRoute(route, session_token)
       \/ \E session_token \in Tokens, elapsed \in Elapsed :
              now + elapsed <= MaxClock /\ ServeAdmin(session_token, elapsed)
       \/ \E session_token \in Tokens, elapsed \in Elapsed :
              /\ now + elapsed <= MaxClock
              /\ ServeCurrentUser(session_token, elapsed)
       \/ Tick
    /\ UNCHANGED <<folder_exists, folder_listing, usage_analytics,
                   conversation_sessions, matcher_log, last>>

SpecAuth == InitAuth /\ [][NextAuth]_vars

\* ------------------------------------------------------------------------
\* Properties
\* ------------------------------------------------------------------------

\* The request recorded in `last` is a served chat request.
Served == last.op = "chat" /\ last.status = 200

\* The request recorded in `last` is a direct call of the matcher.
Matched == last.op = "find"

\* C1: find_relevant_documents returns at most 2 candidates, and when it
\* returns exactly 2 the first candidate's score is not greater than twice
\* the second candidate's score.
C1_AtMostTwoCandidates ==
    Matched =>
        /\ Len(last.relevant_docs) <= 2
        /\ Len(last.relevant_docs) = 2 =>
              last.relevant_docs[1].score <= 2 * last.relevant_docs[2].score

\* C1 witness: two candidates of different scores were returned.
C1_Witness ==
    /\ Matched
    /\ Len(last.relevant_docs) = 2
    /\ last.relevant_docs[1].score > last.relevant_docs[2].score

\* The score parts of a returned candidate for the query of `last`.
CandidateWords == query_words(py_lower(last.query))
CandidateNameMatches(d) == name_matches(CandidateWords, py_lower(d.doc_name))
CandidateContentMatches(d) ==
    content_matches(CandidateWords, py_lower(d.content))
CandidatePatternScore(d) ==
    best_pattern_score(py_lower(d.doc_name), py_lower(last.query))

\* C2: every candidate returned by find_relevant_documents has a score of
\* at least 5 and has a name match, more than 2 content matches or a
\* positive pattern score.
C2_AdmissionGate ==
    Matched =>
        \A k \in 1..Len(last.relevant_docs) :
            LET d == last.relevant_docs[k]
            IN  /\ d.score >= 5
                /\ \/ CandidateNameMatches(d) > 0
                   \/ CandidateContentMatches(d) > 2
                   \/ CandidatePatternScore(d) > 0

\* C2 witness: a candidate is returned with the lowest admitted score, 5.
C2_Witness ==
    /\ Matched
    /\ \E k \in 1..Len(last.relevant_docs) : last.relevant_docs[k].score = 5

\* A string ends with the given suffix.
EndsWith(s, suffix) ==
    /\ Len(s) >= Len(suffix)
    /\ SubSeq(s, Len(s) - Len(suffix) + 1, Len(s)) = suffix

\* The folder holds no supported file: every entry is a directory or has a
\* name that ends with none of the supported extensions.
CorpusIsEmpty ==
    \A k \in 1..Len(folder_listing) :
        LET file == FilePool[folder_listing[k]]
        IN  \/ file.is_dir
            \/ \A ext \in supported_extensions :
                   ~EndsWith(py_lower(file.filename), ext)

\* C4: when the corpus holds no document, find_relevant_documents returns
\* an empty candidate list for every query.
C4_EmptyCorpus == (Matched /\ CorpusIsEmpty) => last.relevant_docs = <<>>

\* C4 witness: the folder holds only an unsupported file and a directory,
\* and the matcher was called with the vacation query.
C4_Witness ==
    /\ Matched
    /\ CorpusIsEmpty
    /\ Len(folder_listing) = 2
    /\ last.query = Queries[1]

\* The highest score among admitted documents, and the highest score among
\* the others once one document of the highest score is set aside.
TopIndex(adm) ==
    CHOOSE i \in 1..Len(adm) : \A j \in 1..Len(adm) : adm[i].score >= adm[j].score
TopScore(adm) == adm[TopIndex(adm)].score
SecondScore(adm) ==
    LET others == {adm[j].score : j \in (1..Len(adm)) \ {TopIndex(adm)}}
    IN  CHOOSE s \in others : \A t \in others : s >= t

\* C6: dominance rule. With at least two admitted documents, when the
\* highest score is strictly greater than twice the second-highest score
\* only the top candidate is returned, and otherwise exactly the two
\* highest-scoring documents are returned, highest first.
C6_DominanceRule ==
    Matched =>
        \A adm \in {last.admitted} :
            Len(adm) >= 2 =>
                /\ \A k \in 1..Len(last.relevant_docs) :
                       \E j \in 1..Len(adm) : last.relevant_docs[k] = adm[j]
                /\ IF TopScore(adm) > 2 * SecondScore(adm)
                   THEN /\ Len(last.relevant_docs) = 1
                        /\ last.relevant_docs[1].score = TopScore(adm)
                   ELSE /\ Len(last.relevant_docs) = 2
                        /\ last.relevant_docs[1].score = TopScore(adm)
                        /\ last.relevant_docs[2].score = SecondScore(adm)

\* C6 witness: several documents were admitted, the top score dominates and
\* a single candidate was returned.
C6_Witness ==
    /\ Matched
    /\ Len(last.relevant_docs) = 1
    /\ \E adm \in {last.admitted} :
           /\ Len(adm) >= 3
           /\ TopScore(adm) > 2 * SecondScore(adm)

\* The corpus holds the document pto_policy alone, and its text mentions
\* vacation.
OnlyPtoPolicy ==
    LET documents == scan_documents_folder(TRUE, folder_listing)
    IN  /\ Len(documents) = 1
        /\ documents[1].doc_key = <<"p", "t", "o", "_", "p", "o", "l", "i", "c", "y">>
        /\ py_in(<<"v", "a", "c", "a", "t", "i", "o", "n">>,
                 py_lower(extract_text_from_file(folder_listing,
                                                 documents[1].file_path)))

\* C7: with a corpus that holds only pto_policy, whose text mentions
\* vacation, the query "How many vacation days do I get?" returns pto_policy,
\* admitted with no name match, a positive pattern score and at least one
\* content match.
C7_PtoPolicyScenario ==
    (Matched /\ OnlyPtoPolicy /\ last.query = Queries[1]) =>
        \E k \in 1..Len(last.relevant_docs) :
            LET d == last.relevant_docs[k]
            IN  /\ d.doc_name = <<"p", "t", "o", "_", "p", "o", "l", "i", "c", "y">>
                /\ CandidateNameMatches(d) = 0
                /\ CandidatePatternScore(d) > 0
                /\ CandidateContentMatches(d) >= 1

\* C7 witness: the matcher answered the vacation query on a folder that
\* holds pto_policy.txt next to an unsupported file.
C7_Witness ==
    /\ Matched
    /\ OnlyPtoPolicy
    /\ Len(folder_listing) = 2
    /\ last.query = Queries[1]
    /\ Len(last.relevant_docs) = 1

\* xs is a subsequence of ys: the elements of xs are elements of ys, taken
\* at strictly increasing positions.
IsSubsequence(xs, ys) ==
    \E at \in [1..Len(xs) -> 1..Len(ys)] :
        /\ \A i \in 1..Len(xs) : xs[i] = ys[at[i]]
        /\ \A i, j \in 1..Len(xs) : i < j => at[i] < at[j]

\* C3: the sources list of a result is a subsequence of the candidate
\* context blocks: every source is one of the candidates, no candidate
\* appears twice and the candidates' order is preserved.
C3_SourcesAreSubsequence ==
    Served =>
        /\ IsSubsequence(last.result.sources, last.document_excerpts)
        /\ \A i, j \in 1..Len(last.result.sources) :
               i # j => last.result.sources[i].document
                            # last.result.sources[j].document

\* C3 witness: of two candidates, only the second one was attributed.
C3_Witness ==
    /\ Served
    /\ Len(last.document_excerpts) = 2
    /\ last.result.sources = <<last.document_excerpts[2]>>

\* The query of `last` shares no query term with the text or the identifier
\* of any document of the folder, and holds no keyword of any pattern.
QuerySharesNothing ==
    LET query_lower == py_lower(last.query)
        words == query_words(query_lower)
        documents == scan_documents_folder(TRUE, folder_listing)
    IN  /\ \A k \in 1..Len(documents) : \A w \in 1..Len(words) :
               /\ ~py_in(words[w], py_lower(documents[k].doc_key))
               /\ ~py_in(words[w],
                         py_lower(extract_text_from_file(folder_listing,
                                      documents[k].file_path)))
        /\ \A p \in 1..Len(doc_patterns) :
               \A k \in 1..Len(doc_patterns[p].keywords) :
                   ~py_in(doc_patterns[p].keywords[k], query_lower)

\* C8: for a query that shares no term with any document and holds no
\* pattern keyword, process_query gets no candidate, still calls the
\* response generator once with an empty document context, and returns no
\* sources.
C8_NoMatchStillGenerates ==
    (Served /\ QuerySharesNothing) =>
        /\ last.relevant_docs = <<>>
        /\ Len(last.prompts) = 1
        /\ last.prompts[1].context = <<>>
        /\ last.result.sources = <<>>

\* C8 witness: the nonsense query was asked on a folder of two documents,
\* and the answer names one of them.
C8_Witness ==
    /\ Served
    /\ QuerySharesNothing
    /\ last.query = Queries[2]
    /\ Len(scan_documents_folder(TRUE, folder_listing)) = 2
    /\ folder_listing[1] = 1
    /\ last.result.response = AnswerTexts[3]

\* The words of a document: the pieces of its lowercased text between
\* whitespace and periods.
WordsOf(text) == py_split_ws(py_replace(py_lower(text), ".", " "))

\* The answer of `last` holds no wording of any candidate: no part of a
\* candidate's identifier and no word of a candidate's text occurs in it.
AnswerOmitsCandidates ==
    LET response_lower == py_lower(last.result.response)
    IN  \A k \in 1..Len(last.relevant_docs) :
            LET d == last.relevant_docs[k]
                parts == py_split_ws(py_replace(py_lower(d.doc_name), "_", " "))
                words == WordsOf(d.content)
            IN  /\ \A i \in 1..Len(parts) : ~py_in(parts[i], response_lower)
                /\ \A i \in 1..Len(words) : ~py_in(words[i], response_lower)

\* C9: when the answer holds no wording derived from any candidate
\* document, the sources list is empty even though there were candidates.
C9_NoWordingNoSources ==
    (Served /\ AnswerOmitsCandidates) => last.result.sources = <<>>

\* C9 witness: two candidates were found and the answer shares no word with
\* them.
C9_Witness ==
    /\ Served
    /\ AnswerOmitsCandidates
    /\ Len(last.relevant_docs) = 2
    /\ last.result.sources = <<>>

\* C10: in every result the tips list is non-empty only when the sources
\* list is non-empty, and it is empty whenever the sources list is empty.
C10_TipsFollowSources ==
    Served =>
        /\ last.result.optimization_tips # <<>> => last.result.sources # <<>>
        /\ last.result.sources = <<>> => last.result.optimization_tips = <<>>

\* C10 witness: a result with candidates, without sources and without tips.
C10_Witness ==
    /\ Served
    /\ last.relevant_docs # <<>>
    /\ last.result.sources = <<>>
    /\ last.result.optimization_tips = <<>>

\* C5: on an unchanged corpus, a run of find_relevant_documents returns the
\* candidates, order and scores that the first run with the same query
\* returned, whatever requests (queries, analytics updates, chat resets)
\* were processed in between.
C5_MatcherIsIdempotent ==
    Served => last.relevant_docs = matcher_log[last.query]

\* C5 witness: a query was asked, then another query, then the first query
\* again; it has candidates and the analytics recorded accessed documents
\* in between.
C5_Witness ==
    /\ Served
    /\ last.relevant_docs # <<>>
    /\ usage_analytics.total_queries = 3
    /\ usage_analytics.documents_accessed # <<>>
    /\ \E s \in DOMAIN conversation_sessions :
           LET messages == conversation_sessions[s]
           IN  /\ Len(messages) = 6
               /\ messages[1].content = last.query
               /\ messages[3].content # last.query
               /\ messages[5].content = last.query
               /\ messages[2].sources # <<>>

\* The request recorded in `last` is a direct call of the generator.
Generated == last.op = "generate"

\* The role-tagged line of one history entry, without its line end.
TaggedLine(msg) ==
    (IF msg.role = "user" THEN <<"E","m","p","l","o","y","e","e">>
     ELSE <<"A","s","s","i","s","t","a","n","t">>)
    \o <<":", " ">> \o msg.content

\* C11: for a conversation history of any length only its last 4 entries
\* (all of them when there are fewer) reach the prompt, in their order, each
\* as one role-tagged line (Employee for the user role, Assistant
\* otherwise); no older entry reaches the generator.
C11_HistoryWindow ==
    Generated =>
        LET history == last.conversation_history
            n == Len(history)
            kept == IF n < 4 THEN n ELSE 4
            lines == py_split(last.prompts[1].conversation_context, "\n")
        IN  /\ Len(last.prompts) = 1
            /\ IF n = 0
               THEN last.prompts[1].conversation_context = <<>>
               ELSE /\ Len(lines) = kept + 4
                    /\ lines[1] = <<>> /\ lines[2] = <<>>
                    /\ lines[3] = <<"P","r","e","v","i","o","u","s"," ","c",
                                    "o","n","v","e","r","s","a","t","i","o",
                                    "n",":">>
                    /\ \A k \in 1..kept :
                           lines[3 + k] = TaggedLine(history[n - kept + k])
                    /\ lines[kept + 4] = <<>>

\* C11 witness: a history of 5 entries whose first entry, a system note, is
\* followed by user and assistant entries; the prompt holds 4 lines.
C11_Witness ==
    /\ Generated
    /\ Len(last.conversation_history) = 5
    /\ last.conversation_history[1].role = "system"
    /\ last.conversation_history[2].role = "user"
    /\ last.conversation_history[3].role = "assistant"
    /\ \A k \in 2..5 : last.conversation_history[k].role # "system"
    /\ ~py_in(<<"n","b">>, last.prompts[1].conversation_context)

\* C12: a chat request whose query is empty after stripping is rejected
\* before scoring: no scan of the folder, no candidates, no call of the
\* generator, and the usage analytics and the conversation store stay as
\* they were.
C12_EmptyQueryRejected ==
    [][(last'.op = "chat" /\ last'.query = <<>>) =>
          /\ last'.status = 400
          /\ last'.relevant_docs = <<>>
          /\ last'.prompts = <<>>
          /\ UNCHANGED <<folder_exists, folder_listing, usage_analytics,
                         conversation_sessions>>]_vars

\* C12 witness: an empty query was rejected on a server that had already
\* counted queries and stored a conversation.
C12_Witness ==
    /\ last.op = "chat"
    /\ last.status = 400
    /\ last.query = <<>>
    /\ usage_analytics.total_queries = 2
    /\ conversation_sessions # <<>>

\* The API call of the request recorded in `last` failed: it raised, or its
\* response held no content.
GeneratorFailed == last.outcome.kind \in {"error", "empty"}

\* The opening words of both apology texts.
ApologyOpening ==
    <<"I"," ","a","p","o","l","o","g","i","z","e",","," ","b","u","t"," ","I"," ">>

\* C13: when the generator call fails (raises or returns no content) the
\* answer of the request is the apology text and the request is counted as
\* an error: error_count grows by one with that request.
C13_FailureCountedAsError ==
    [][(Served /\ GeneratorFailed)' =>
          /\ py_prefix(last'.result.response, Len(ApologyOpening))
                 = ApologyOpening
          /\ usage_analytics'.error_count = usage_analytics.error_count + 1]_vars

\* C13 witness: the API call raised, the answer is the apology with the
\* error detail, one query was counted and no error.
C13_Witness ==
    /\ Served
    /\ last.outcome.kind = "error"
    /\ last.result.response = ApologyText \o last.outcome.text
    /\ usage_analytics.total_queries = 1
    /\ usage_analytics.error_count = 0

\* The file of a candidate could not be read.
Unreadable(d) ==
    \E i \in 1..Len(FilePool) :
        /\ FilePool[i].read_error # <<>>
        /\ path_join(documents_folder, FilePool[i].filename) = d.file_path

\* The documents of the folder that can be read and pass the admission gate
\* with their own text, in scan order.
ReadableAdmitted ==
    SelectSeq(last.admitted, LAMBDA d : ~Unreadable(d))

\* C14: a document whose text extraction fails is left out of the scoring
\* and of the candidate list of that request, while the other documents are
\* still scored and can still be returned.
C14_FailedExtractionExcluded ==
    Matched =>
        /\ \A k \in 1..Len(last.relevant_docs) :
               ~Unreadable(last.relevant_docs[k])
        /\ ReadableAdmitted # <<>> => last.relevant_docs # <<>>

\* C14 witness: pto_policy.txt and the unreadable leave_policy.txt are in
\* the folder, and the query "PTO policy" returns both, the second with the
\* error message as its content.
C14_Witness ==
    /\ Matched
    /\ last.query = Queries[4]
    /\ Len(last.relevant_docs) = 2
    /\ ~Unreadable(last.relevant_docs[1])
    /\ Unreadable(last.relevant_docs[2])
    /\ py_prefix(last.relevant_docs[2].content, Len(ErrorReading)) = ErrorReading

\* C15: find_relevant_documents has no side effect: a call leaves the
\* documents folder (its existence included), the usage analytics and the
\* conversation store as they were before the call.
C15_MatcherHasNoSideEffect ==
    [][Matched' => UNCHANGED <<folder_exists, folder_listing, usage_analytics,
                               conversation_sessions>>]_vars

\* The part of C15 that holds: a call of the matcher leaves the listing of
\* the folder, the usage analytics and the conversation store unchanged.
MatcherKeepsGlobals ==
    [][Matched' => UNCHANGED <<folder_listing, usage_analytics,
                               conversation_sessions>>]_vars

\* The request recorded in `last` went through process_query: it was served,
\* or process_query raised and 500 was sent.
Processed == last.op = "chat" /\ last.status \in {200, 500}

\* C16: the usage ledger is updated exactly once per request: every call of
\* process_query, whether it returns or raises, also when the ledger update
\* itself fails part-way, increases total_queries by exactly 1.
C16_LedgerOncePerRequest ==
    [][Processed' =>
          usage_analytics'.total_queries = usage_analytics.total_queries + 1]_vars

\* C16 witness: process_query raised on its first request and two queries
\* are counted, none of them as an error.
C16_Witness ==
    /\ last.op = "chat"
    /\ last.status = 500
    /\ usage_analytics.total_queries = 2
    /\ usage_analytics.error_count = 0

\* The part of C16 that holds: a served request is counted exactly once.
ServedCountedOnce ==
    [][Served' =>
          usage_analytics'.total_queries = usage_analytics.total_queries + 1]_vars

\* The tokens of an identifier or topic name: its pieces between separators.
TokensOf(name) ==
    LET parts == py_split(name, "_")
    IN  {parts[k] : k \in 1..Len(parts)} \ {<<>>}

\* The pattern score as C17 states it: for each topic whose name shares a
\* whole token with the identifier, 5 times the number of the topic's
\* keywords found in the query; the maximum over the topics, 0 without any.
TokenPatternScore(doc_name_lower, query_lower) ==
    LET scores ==
            {IF TokensOf(doc_patterns[p].pattern_name)
                    \cap TokensOf(doc_name_lower) # {}
             THEN 5 * Cardinality({k \in 1..Len(doc_patterns[p].keywords) :
                          py_in(doc_patterns[p].keywords[k], query_lower)})
             ELSE 0 : p \in 1..Len(doc_patterns)} \cup {0}
    IN  CHOOSE s \in scores : \A t \in scores : s >= t

\* C17: a topic's keyword count, times 5, contributes to the pattern score
\* of a document only if the document's identifier shares a whole token
\* with the topic name, and the pattern score is the maximum over topics.
C17_PatternNeedsWholeToken ==
    Matched =>
        \A k \in 1..Len(last.relevant_docs) :
            LET d == last.relevant_docs[k]
            IN  CandidatePatternScore(d)
                    = TokenPatternScore(py_lower(d.doc_name),
                                        py_lower(last.query))

\* C17 witness: "Reset my password" returns health_benefits with score 5,
\* all of it pattern score of the topic it_security_policy, whose token
\* "it" is no token of the identifier but occurs inside "benefits".
C17_Witness ==
    /\ Matched
    /\ last.query = Queries[8]
    /\ Len(last.relevant_docs) = 1
    /\ last.relevant_docs[1].doc_name
           = <<"h","e","a","l","t","h","_","b","e","n","e","f","i","t","s">>
    /\ last.relevant_docs[1].score = 5
    /\ CandidatePatternScore(last.relevant_docs[1]) = 5
    /\ TokenPatternScore(py_lower(last.relevant_docs[1].doc_name),
                         py_lower(last.query)) = 0

\* The query terms as C18 states them: the whitespace-separated tokens of
\* the lowercased query longer than 2 characters and outside the stop-word
\* set, one term per token.
QueryTerms(query) ==
    LET tokens == py_split_ws(py_lower(query))
        stops == {<<"t","h","e">>, <<"a","n","d">>, <<"f","o","r">>,
                  <<"w","i","t","h">>, <<"a","b","o","u","t">>,
                  <<"w","h","a","t">>, <<"h","o","w">>, <<"c","a","n">>,
                  <<"y","o","u">>}
    IN  SelectSeq(tokens, LAMBDA t : Len(t) > 2 /\ t \notin stops)

\* The number of the terms that occur as substrings of a lowercased text.
TermsOccurring(terms, text) ==
    Cardinality({k \in 1..Len(terms) : py_in(terms[k], py_lower(text))})

\* The score C18 gives a document for the query of `last`.
StatedScore(terms, d) ==
    2 * TermsOccurring(terms, d.content)
        + 3 * TermsOccurring(terms, d.doc_name)
        + CandidatePatternScore(d)

\* C18: the score of every admitted document, by which it is ranked, is
\* 2 x (query terms occurring in its lowercased text) + 3 x (query terms
\* occurring in its lowercased identifier) + its pattern score, the query
\* terms being the whitespace tokens of the lowercased query longer than 2
\* characters that are not stop words; a document is admitted only with
\* that score at 5 or more.
C18_ScoreFormula ==
    Matched =>
        \A adm \in {last.admitted},
           terms \in {QueryTerms(last.query)} :
            /\ \A k \in 1..Len(adm) :
                   /\ adm[k].score = StatedScore(terms, adm[k])
                   /\ adm[k].score >= 5
            /\ \A k \in 1..Len(last.relevant_docs) :
                   last.relevant_docs[k].score
                       = StatedScore(terms, last.relevant_docs[k])

\* C18 witness: a query with a stop word and a token of 2 characters
\* returned a candidate whose three score parts are all positive and whose
\* text and identifier hold different numbers of query terms.
C18_Witness ==
    /\ Matched
    /\ \E terms \in {QueryTerms(last.query)} :
        /\ Len(terms) < Len(py_split_ws(last.query)) - 1
        /\ \E k \in 1..Len(last.relevant_docs) :
               LET d == last.relevant_docs[k]
               IN  /\ TermsOccurring(terms, d.content) > 0
                   /\ TermsOccurring(terms, d.doc_name) > 0
                   /\ TermsOccurring(terms, d.content)
                          # TermsOccurring(terms, d.doc_name)
                   /\ CandidatePatternScore(d) > 0
                   /\ d.score = StatedScore(terms, d)

\* The place of a document in the order the folder scan visits the files.
ScanPosition(doc_name) ==
    LET scanned == scan_documents_folder(folder_exists, folder_listing)
    IN  CHOOSE k \in 1..Len(scanned) : scanned[k].doc_key = doc_name

\* C19: the returned candidates are in descending order of score, those
\* of equal score in the order the scan visited them; an admitted document
\* that is not returned has no higher score than any returned one and, at
\* an equal score, was scanned after it.
C19_StableDescendingOrder ==
    Matched =>
        \A adm \in {last.admitted} :
            /\ \A i, j \in 1..Len(last.relevant_docs) :
                   i < j =>
                       LET a == last.relevant_docs[i]
                           b == last.relevant_docs[j]
                       IN  /\ a.score >= b.score
                           /\ a.score = b.score =>
                                  ScanPosition(a.doc_name)
                                      < ScanPosition(b.doc_name)
            /\ \A i \in 1..Len(last.relevant_docs), k \in 1..Len(adm) :
                   LET a == last.relevant_docs[i]
                   IN  (\A j \in 1..Len(last.relevant_docs) :
                            last.relevant_docs[j].doc_name # adm[k].doc_name)
                       => /\ adm[k].score <= a.score
                          /\ adm[k].score = a.score =>
                                 ScanPosition(a.doc_name)
                                     < ScanPosition(adm[k].doc_name)

\* C19 witness: three admitted documents tie, the folder lists them in
\* another order than the pool's, and the two returned are the two scanned
\* first, in scan order.
C19_Witness ==
    /\ Matched
    /\ Len(folder_listing) = 3
    /\ folder_listing[1] > folder_listing[2]
    /\ Len(last.relevant_docs) = 2
    /\ last.relevant_docs[1].score = last.relevant_docs[2].score
    /\ \A adm \in {last.admitted} :
           /\ Len(adm) = 3
           /\ adm[3].score = adm[1].score
           /\ last.relevant_docs = SubSeq(adm, 1, 2)
           /\ ScanPosition(adm[1].doc_name) = 1
           /\ ScanPosition(adm[2].doc_name) = 2

\* C20: when the query of a matcher call has no query term, the admitted
\* documents are exactly the scanned documents whose pattern score is 5 or
\* more, each with its pattern score as its score, and candidates are
\* returned whenever there is one.
C20_PatternOnlyAdmission ==
    (Matched /\ QueryTerms(last.query) = <<>>) =>
        \A adm \in {last.admitted},
           scanned \in {scan_documents_folder(folder_exists, folder_listing)} :
            LET by_pattern ==
                    SelectSeq(scanned,
                        LAMBDA e : best_pattern_score(py_lower(e.doc_key),
                                       py_lower(last.query)) >= 5)
            IN  /\ Len(adm) = Len(by_pattern)
                /\ \A k \in 1..Len(adm) :
                       /\ adm[k].doc_name = by_pattern[k].doc_key
                       /\ adm[k].score = CandidatePatternScore(adm[k])
                /\ by_pattern # <<>> => last.relevant_docs # <<>>

\* C20 witness: "Is AI ok" has no query term and returned a candidate that
\* holds no word of the query in its name: its score is its pattern score.
C20_Witness ==
    /\ Matched
    /\ last.query = Queries[6]
    /\ QueryTerms(last.query) = <<>>
    /\ CandidateWords = <<>>
    /\ last.relevant_docs # <<>>
    /\ last.relevant_docs[1].score = 5
    /\ CandidatePatternScore(last.relevant_docs[1]) = 5

\* Rule 1 of C21: some token of the candidate's identifier occurs in the
\* lowercased answer.
NamedInAnswer(excerpt, answer) ==
    \E token \in TokensOf(py_lower(excerpt.document)) :
        py_in(token, py_lower(answer))

\* The key phrases of C21: the first 3 period-separated fragments of the
\* text whose trimmed length exceeds 20 characters.
KeyFragments(text) ==
    LET pieces == py_split(py_lower(text), ".")
        long == {k \in 1..Len(pieces) : Len(py_strip(pieces[k])) > 20}
        first == {k \in long : Cardinality({j \in long : j < k}) < 3}
    IN  {py_strip(pieces[k]) : k \in first}

\* Rule 2 of C21: a key phrase has at least 2 words longer than 4
\* characters, of which at least 60% occur in the lowercased answer.
EchoedInAnswer(excerpt, answer) ==
    \E fragment \in KeyFragments(excerpt.text) :
        LET words == py_split_ws(fragment)
            long == {k \in 1..Len(words) : Len(words[k]) > 4}
            found == {k \in long : py_in(words[k], py_lower(answer))}
        IN  /\ Cardinality(long) >= 2
            /\ 100 * Cardinality(found) >= 60 * Cardinality(long)

\* C21: the sources of a served request are exactly the candidates, in
\* their order, that the answer names (rule 1) or echoes (rule 2); a
\* candidate satisfying neither rule is not among them.
C21_SourcesIffReferenced ==
    Served =>
        last.result.sources
            = SelectSeq(last.document_excerpts,
                  LAMBDA excerpt :
                      \/ NamedInAnswer(excerpt, last.result.response)
                      \/ EchoedInAnswer(excerpt, last.result.response))

\* C21 witness: of two candidates, one is a source by rule 2 alone (the
\* answer holds no token of its identifier) and the other is dropped.
C21_Witness ==
    /\ Served
    /\ Len(last.document_excerpts) = 2
    /\ Len(last.result.sources) = 1
    /\ ~NamedInAnswer(last.result.sources[1], last.result.response)
    /\ EchoedInAnswer(last.result.sources[1], last.result.response)

\* The query terms of a highlight: the lowercased tokens of the query
\* longer than 2 characters.
HighlightTerms(query) ==
    LET tokens == py_split_ws(query)
    IN  {py_lower(tokens[k]) : k \in {j \in 1..Len(tokens) : Len(tokens[j]) > 2}}

\* The first n characters of a text, all of it when it has fewer.
FirstChars(s, n) == [i \in 1..(IF Len(s) < n THEN Len(s) ELSE n) |-> s[i]]

\* The highlight C22 gives a content: its first two lines that hold a query
\* term, trimmed and joined by a line end, or its first 200 characters when
\* no line holds one; beyond 200 characters, cut there with "..." added.
StatedHighlight(content, query) ==
    LET lines == py_split(content, "\n")
        hits == {k \in 1..Len(lines) :
                     \E term \in HighlightTerms(query) :
                         py_in(term, py_lower(lines[k]))}
        first == CHOOSE k \in hits : \A j \in hits : k <= j
        second == CHOOSE k \in hits \ {first} : \A j \in hits \ {first} : k <= j
        whole == IF hits = {} THEN FirstChars(content, 200)
                 ELSE IF Cardinality(hits) = 1 THEN py_strip(lines[first])
                 ELSE py_strip(lines[first]) \o <<"\n">>
                          \o py_strip(lines[second])
    IN  IF Len(whole) > 200
        THEN SubSeq(whole, 1, 200) \o <<".", ".", ".">>
        ELSE whole

Excerpted == last.op = "excerpts"

\* C22: the highlight of every candidate is the first two lines of its raw
\* text that contain a query term (length > 2, lowercased), joined, or the
\* first 200 characters of the raw text when no line matches; it is cut to
\* 200 characters plus "..." when longer and never exceeds 203 characters.
C22_HighlightRule ==
    Excerpted =>
        /\ Len(last.document_excerpts) = Len(last.relevant_docs)
        /\ \A k \in 1..Len(last.document_excerpts) :
            \A highlight \in {last.document_excerpts[k].highlight} :
               /\ highlight = StatedHighlight(last.relevant_docs[k].content,
                                              last.query)
               /\ Len(highlight) <= 203

\* C22 witness: three lines hold a query term, the first two, a short and
\* an overlong one, are joined and exceed 200 characters: the highlight has
\* 203, starts with the first line and ends in "...".
C22_Witness ==
    /\ Excerpted
    /\ last.query = Queries[5]
    /\ \E k \in 1..Len(last.relevant_docs) :
        \A lines \in {py_split(last.relevant_docs[k].content, "\n")},
           highlight \in {last.document_excerpts[k].highlight} :
           /\ Len(lines) = 3
           /\ \A j \in 1..3 : py_in(<<"v","a","c","a","t","i","o","n">>,
                                    py_lower(lines[j]))
           /\ Len(lines[1]) < 200
           /\ Len(lines[1]) + Len(lines[2]) > 200
           /\ Len(highlight) = 203
           /\ SubSeq(highlight, 201, 203) = <<".", ".", ".">>
           /\ SubSeq(highlight, 1, Len(lines[1])) = lines[1]

\* The complete text of a content with its blank lines removed: every line
\* holding a character that is no whitespace, trimmed, in order.
CompleteText(content) ==
    LET lines == py_split(content, "\n")
        full == SelectSeq(lines,
                    LAMBDA line : \E i \in 1..Len(line) : ~IsSpace(line[i]))
    IN  py_join(<<"\n">>, [k \in 1..Len(full) |-> py_strip(full[k])])

\* The block C23 gives the candidate of rank k.
ContextBlock(k, d) ==
    <<"\n","\n","D","o","c","u","m","e","n","t","_">> \o py_str(k)
        \o <<" ","-"," ">> \o d.doc_name \o <<":","\n">>
        \o CompleteText(d.content)

\* The excerpts with every highlight replaced by h.
WithHighlights(document_excerpts, h) ==
    [k \in 1..Len(document_excerpts) |->
        [document_excerpts[k] EXCEPT !.highlight = h]]

\* C23: the one prompt of a served request carries as its context the
\* blocks of the candidates in rank order, each labelled Document_k with the
\* candidate's identifier and its complete text without blank lines; the
\* context built from the same excerpts under any other highlights is the
\* same.
C23_ContextIsCompleteTexts ==
    Served =>
        /\ Len(last.prompts) = 1
        /\ Len(last.document_excerpts) = Len(last.relevant_docs)
        /\ \A context \in {last.prompts[1].context} :
            /\ context
                   = py_join(<<>>, [k \in 1..Len(last.relevant_docs) |->
                                       ContextBlock(k, last.relevant_docs[k])])
            /\ \A h \in {<<>>, <<"x">>} :
                   build_context(WithHighlights(last.document_excerpts, h),
                                 Len(last.document_excerpts)) = context

\* C23 witness: two candidates; one has a text of more than 203 characters
\* with a blank line removed from it and a highlight that is shorter than
\* the text, and the context holds the whole text.
C23_Witness ==
    /\ Served
    /\ Len(last.relevant_docs) = 2
    /\ \E k \in 1..2 :
        \A text \in {last.document_excerpts[k].text} :
           /\ Len(text) > 203
           /\ Len(last.relevant_docs[k].content) > Len(text)
           /\ Len(last.document_excerpts[k].highlight) < Len(text)
           /\ last.document_excerpts[k].highlight # <<>>
           /\ py_in(text, last.prompts[1].context)
    /\ py_in(<<"D","o","c","u","m","e","n","t","_","2"," ","-"," ">>,
             last.prompts[1].context)

Logged == last.op = "log"

\* The buckets of classify_query_type in the order C24 names them.
BucketOrder ==
    <<"PTO & Leave", "Health Benefits", "IT Security", "Employee Handbook",
      "Organization", "AI Usage">>

\* The query holds a keyword of the bucket.
HoldsKeywordOf(query, bucket) ==
    \E k \in 1..Len(classify_rules) :
        /\ classify_rules[k].category = bucket
        /\ \E i \in 1..Len(classify_rules[k].words) :
               py_in(classify_rules[k].words[i], py_lower(query))

\* The bucket C24 assigns: the earliest in the order a keyword of which
\* occurs in the lowercased query, General when there is none.
StatedBucket(query) ==
    LET hits == {k \in 1..Len(BucketOrder) :
                     HoldsKeywordOf(query, BucketOrder[k])}
    IN  IF hits = {} THEN "General"
        ELSE BucketOrder[CHOOSE k \in hits : \A j \in hits : k <= j]

\* C24: the ledger counts a logged query under the first bucket, in the
\* order PTO & Leave, Health Benefits, IT Security, Employee Handbook,
\* Organization, AI Usage, one of whose keywords occurs in the lowercased
\* query, and under General when none does; and under no other bucket.
C24_FirstBucketWins ==
    Logged =>
        /\ DOMAIN usage_analytics.query_types = {StatedBucket(last.query)}
        /\ usage_analytics.query_types[StatedBucket(last.query)] = 1
        /\ classify_query_type(last.query) = StatedBucket(last.query)

\* C24 witness: "usage policy" holds a keyword of AI Usage first and one of
\* Employee Handbook second; it is counted under Employee Handbook.
C24_Witness ==
    /\ Logged
    /\ last.query = <<"u","s","a","g","e"," ","p","o","l","i","c","y">>
    /\ HoldsKeywordOf(last.query, "AI Usage")
    /\ HoldsKeywordOf(last.query, "Employee Handbook")
    /\ DOMAIN usage_analytics.query_types = {"Employee Handbook"}

\* The step is a chat request that failed: process_query raised.
FailedStep == last'.op = "chat" /\ last'.status = 500

\* C25: a chat request whose processing raises is logged as an error
\* (error_count incremented, no document counted as accessed) and leaves
\* the conversation store as it was.
C25_FailureLoggedNothingPersisted ==
    [][FailedStep =>
          /\ usage_analytics'.error_count = usage_analytics.error_count + 1
          /\ usage_analytics'.documents_accessed
                 = usage_analytics.documents_accessed
          /\ conversation_sessions' = conversation_sessions]_vars

\* C25 witness: a request with a well-formed history failed in the ledger
\* update; it was answered 500, nothing was stored, and the ledger counts
\* no error.
C25_Witness ==
    /\ last.op = "chat"
    /\ last.status = 500
    /\ last.conversation_history = <<>>
    /\ last.prompts # <<>>
    /\ conversation_sessions = <<>>
    /\ usage_analytics.documents_accessed = <<>>
    /\ usage_analytics.error_count = 0

\* The parts of C25 that hold: no failed request stores a message or counts
\* a document, and a request that failed in generate_response is counted
\* once, as an error, when the ledger update itself does not raise.
FailedRequestPersistsNothing ==
    [][FailedStep =>
          /\ conversation_sessions' = conversation_sessions
          /\ usage_analytics'.documents_accessed
                 = usage_analytics.documents_accessed
          /\ last'.result = NoResult
          /\ (history_raises(last'.conversation_history)
                  /\ usage_analytics'.users # <<>>
                  /\ usage_analytics'.departments # <<>>)
              => /\ usage_analytics'.error_count
                        = usage_analytics.error_count + 1
                 /\ usage_analytics'.total_queries
                        = usage_analytics.total_queries + 1
                 /\ last'.prompts = <<>>]_vars

\* The places of the folder listing that hold a supported file.
SupportedPlaces ==
    {k \in 1..Len(folder_listing) : is_supported(FilePool[folder_listing[k]])}

\* C26: two different supported files of the folder never get the same
\* identifier, and the scan lists every supported file, once.
C26_IdentifiersAreUnique ==
    Matched =>
        \A scanned \in {scan_documents_folder(folder_exists, folder_listing)} :
            /\ \A i, j \in SupportedPlaces :
                   i # j => doc_key_of(FilePool[folder_listing[i]].filename)
                              # doc_key_of(FilePool[folder_listing[j]].filename)
            /\ Len(scanned) = Cardinality(SupportedPlaces)
            /\ \A i \in SupportedPlaces :
                   \E k \in 1..Len(scanned) :
                       scanned[k].file_path
                           = path_join(documents_folder,
                                       FilePool[folder_listing[i]].filename)

\* C26 witness: the folder holds pto_policy.txt and then pto-policy.txt;
\* "PTO policy" returns one candidate pto_policy, with the text of the
\* second file, and the first file is scored nowhere.
C26_Witness ==
    /\ Matched
    /\ folder_listing = <<1, 8>>
    /\ last.query = Queries[4]
    /\ Len(last.relevant_docs) = 1
    /\ last.relevant_docs[1].doc_name
           = <<"p","t","o","_","p","o","l","i","c","y">>
    /\ last.relevant_docs[1].file_path
           = path_join(documents_folder, FilePool[8].filename)
    /\ last.relevant_docs[1].content = FilePool[8].text
    /\ Len(scan_documents_folder(folder_exists, folder_listing)) = 1

\* The count a dict of counters holds for a key, 0 for a missing key.
CountOf(counters, key) == IF key \in DOMAIN counters THEN counters[key] ELSE 0

\* C27: a served chat request raises documents_accessed by 1 for each
\* identifier of its verified sources and leaves the count of every other
\* document as it was, the candidates that are no source among them.
C27_LedgerCountsSourcesOnly ==
    [][(last'.op = "chat" /\ last'.status = 200) =>
          LET sources == {last'.result.sources[k].document :
                              k \in 1..Len(last'.result.sources)}
              candidates == {last'.relevant_docs[k].doc_name :
                                 k \in 1..Len(last'.relevant_docs)}
              names == DOMAIN usage_analytics.documents_accessed
                           \cup DOMAIN usage_analytics'.documents_accessed
                           \cup candidates
          IN  \A name \in names :
                  CountOf(usage_analytics'.documents_accessed, name)
                      = CountOf(usage_analytics.documents_accessed, name)
                            + (IF name \in sources THEN 1 ELSE 0)]_vars

\* C27 witness: after several requests a served request has two
\* candidates, one verified source and one not; the source has been counted
\* twice, the other candidate never.
C27_Witness ==
    /\ Served
    /\ usage_analytics.total_queries >= 2
    /\ Len(last.relevant_docs) = 2
    /\ Len(last.result.sources) = 1
    /\ usage_analytics.documents_accessed[last.result.sources[1].document] = 2
    /\ \E k \in 1..2 :
           last.relevant_docs[k].doc_name
               \notin DOMAIN usage_analytics.documents_accessed

\* The documents find_relevant_documents scores: every scanned document
\* with the text read from its file.
ScoredDocuments ==
    LET scanned == scan_documents_folder(folder_exists, folder_listing)
    IN  [k \in 1..Len(scanned) |->
            [doc_name |-> scanned[k].doc_key,
             content |-> extract_text_from_file(folder_listing,
                                                scanned[k].file_path)]]

\* total_score of a scored document for the query of the last call.
DocumentTotalScore(d) ==
    total_score(CandidateContentMatches(d), CandidateNameMatches(d),
                CandidatePatternScore(d))

\* C28: for every scored document a total score of 5 or more implies a name
\* match, more than 2 content matches or a positive pattern score, and the
\* admitted documents are exactly the scored documents whose total score is
\* 5 or more, in scan order.
C28_ScoreAloneAdmits ==
    Matched =>
        \A adm \in {last.admitted}, docs \in {ScoredDocuments} :
        \A parts \in {[k \in 1..Len(docs) |->
                          [cm |-> CandidateContentMatches(docs[k]),
                           nm |-> CandidateNameMatches(docs[k]),
                           bps |-> CandidatePatternScore(docs[k])]]} :
            LET strong == SelectSeq([k \in 1..Len(docs) |-> k],
                              LAMBDA k : total_score(parts[k].cm, parts[k].nm,
                                                     parts[k].bps) >= 5)
            IN  /\ \A k \in 1..Len(docs) :
                       total_score(parts[k].cm, parts[k].nm, parts[k].bps) >= 5
                           => \/ parts[k].nm > 0
                              \/ parts[k].cm > 2
                              \/ parts[k].bps > 0
                /\ Len(adm) = Len(strong)
                /\ \A k \in 1..Len(adm) :
                       adm[k].doc_name = docs[strong[k]].doc_name

\* C28 witness: a call scored a document with no name match and no pattern
\* score that reaches a total score of 6 on 3 content matches alone, and
\* the document is returned.
C28_Witness ==
    /\ Matched
    /\ \E docs \in {ScoredDocuments} :
        \E i \in 1..Len(docs) :
            /\ CandidateNameMatches(docs[i]) = 0
            /\ CandidatePatternScore(docs[i]) = 0
            /\ CandidateContentMatches(docs[i]) = 3
            /\ DocumentTotalScore(docs[i]) = 6
            /\ \E k \in 1..Len(last.relevant_docs) :
                   last.relevant_docs[k].doc_name = docs[i].doc_name

\* A call scored a document with no name match and no pattern score that
\* stays at a total score of 4 with 2 content matches, and the document is
\* not returned.
ScoreFourRejected ==
    /\ Matched
    /\ \E docs \in {ScoredDocuments} :
        \E j \in 1..Len(docs) :
            /\ CandidateNameMatches(docs[j]) = 0
            /\ CandidatePatternScore(docs[j]) = 0
            /\ CandidateContentMatches(docs[j]) = 2
            /\ DocumentTotalScore(docs[j]) = 4
            /\ \A k \in 1..Len(last.relevant_docs) :
                   last.relevant_docs[k].doc_name # docs[j].doc_name

\* The last n elements of a sequence, all of them when it has fewer.
LastOf(s, n) == IF Len(s) <= n THEN s ELSE SubSeq(s, Len(s) - n + 1, Len(s))

\* The messages a session holds, none for a session that does not exist.
SessionMessages(sessions, session_id) ==
    IF session_id \in DOMAIN sessions THEN sessions[session_id] ELSE <<>>

\* A step of a served chat request appends the user message and then the
\* bot message to the session of the caller's user id and department,
\* which keeps the last 20 of its messages; other sessions are as before.
ChatAppendsTwo ==
    (last'.op = "chat" /\ last'.status = 200) =>
        \E caller \in SessionCallers :
            LET session_id == caller.user_id \o <<"_">> \o caller.department
                appended ==
                    SessionMessages(conversation_sessions, session_id)
                    \o <<[type |-> "user", content |-> last'.query,
                          department |-> caller.department,
                          sources |-> <<>>],
                         [type |-> "bot",
                          content |-> last'.result.response,
                          department |-> <<>>,
                          sources |-> last'.result.sources]>>
            IN  /\ DOMAIN conversation_sessions'
                       = DOMAIN conversation_sessions \cup {session_id}
                /\ conversation_sessions'[session_id] = LastOf(appended, 20)
                /\ \A other \in DOMAIN conversation_sessions \ {session_id} :
                       conversation_sessions'[other]
                           = conversation_sessions[other]

\* A step of a reset request leaves no session in the store.
ResetEmptiesStore ==
    last'.op = "reset" => DOMAIN conversation_sessions' = {}

ServedRoute == auth_last.op = "request" /\ auth_last.status = 200

\* The token was issued by a successful authentication of an active user
\* with the correct password.
ProperlyIssued(session_token) ==
    /\ session_token \in DOMAIN issued
    /\ issued[session_token].username \in DOMAIN employees
    /\ employees[issued[session_token].username].is_active
    /\ issued[session_token].password = SamplePassword

\* The hours between the creation of the token's session and the time.
TokenAge(session_token, time) == time - issued[session_token].at

\* A step presents to a protected route a token of the session table that
\* is 24 hours old or older.
ExpiredPresented ==
    /\ auth_last'.op = "request"
    /\ auth_last'.at = now
    /\ auth_last'.token \in DOMAIN auth_sessions
    /\ TokenAge(auth_last'.token, now) >= 24

\* C30: a protected route is served only to a request whose token was
\* issued by a successful authentication of an active user with the correct
\* password, has not been logged out and is less than 24 hours old when the
\* request is authenticated, /admin only when that user is an admin; and an
\* expired token presented to a protected route is removed from the session
\* table.
C30_RoutesNeedLiveSession ==
    /\ [](ServedRoute =>
             /\ ProperlyIssued(auth_last.token)
             /\ auth_last.token \notin logged_out
             /\ TokenAge(auth_last.token, auth_last.at) < 24
             /\ auth_last.route = "/admin" =>
                    employees[issued[auth_last.token].username].is_admin)
    /\ [][ExpiredPresented =>
              auth_last'.token \notin DOMAIN auth_sessions']_vars

\* C30 witness: /admin is served on the token of jane.smith, who is no
\* admin; the token was valid when require_auth looked it up and had
\* expired when the handler looked it up again.
C30_Witness ==
    /\ ServedRoute
    /\ auth_last.route = "/admin"
    /\ ProperlyIssued(auth_last.token)
    /\ issued[auth_last.token].username = JaneSmith
    /\ ~employees[JaneSmith].is_admin
    /\ auth_last.user = NoUser
    /\ auth_last.token \notin DOMAIN auth_sessions
    /\ TokenAge(auth_last.token, auth_last.at) <= 24
    /\ TokenAge(auth_last.token, now) > 24

\* What holds of every served request: the token was properly issued, has
\* not been logged out and was at most 24 hours old when require_auth
\* looked it up; an admin is required whenever the second lookup of /admin
\* finds the user; a token older than 24 hours is removed when presented.
ServedOnLiveSessionAtLookup ==
    ServedRoute =>
        /\ ProperlyIssued(auth_last.token)
        /\ auth_last.token \notin logged_out
        /\ TokenAge(auth_last.token, auth_last.at) <= 24
        /\ (auth_last.route = "/admin" /\ auth_last.user # NoUser) =>
               auth_last.user.is_admin
        /\ auth_last.user # NoUser =>
               auth_last.user.username = issued[auth_last.token].username

\* A protected route is served on a token that is exactly 24 hours old.
ServedAtTwentyFourHours ==
    /\ ServedRoute
    /\ auth_last.route \in PlainRoutes
    /\ TokenAge(auth_last.token, auth_last.at) = 24

\* A token of the session table that is more than 24 hours old is removed
\* by the request that presents it to a protected route.
StaleTokenRemoved ==
    [][(ExpiredPresented /\ TokenAge(auth_last'.token, now) > 24) =>
           auth_last'.token \notin DOMAIN auth_sessions']_vars

=============================================================================
